---- MODULE Spec2Model ----
(***************************************************************************)
(* A model of ustr.h (vpiotr/ustr): the compile-time selection of a        *)
(* conversion strategy by ustr::to_string, the structural formatters for   *)
(* pairs, tuples, C arrays and iterator ranges, and the quoting codec      *)
(* quoted_str that nested text elements go through.                        *)
(*                                                                         *)
(* Text is a sequence of bytes (0..255).  A C++ type is a record           *)
(* [k, args, tr, n]: its kind, its type arguments, the capabilities a      *)
(* class declares, and a number that tells apart classes and enums (for    *)
(* an array: its extent).  A value is a record that carries its static     *)
(* type and its payload.                                                   *)
(***************************************************************************)
EXTENDS Integers, Sequences, FiniteSets, TLC

VARIABLES
    cplusplus,      \* the __cplusplus value of the build
    specialized,    \* types with an explicit to_string_impl<T> specialization
    flagged,        \* types with has_custom_specialization<T> : true_type
    op,             \* last call: "none" or the name of the function called
    arg,            \* the value passed to ustr::to_string
    range_type,     \* iterator_traits<IterT>::value_type of the last range call
    range_items,    \* the elements [begin, end) of the last range call
    strategy,       \* the to_string_impl overload that overload resolution chose
    result,         \* the returned text
    quote,          \* the arguments of the last quoted_str call
    contexts,       \* the format_context objects: alive, and formatters_
    last_touch,     \* per context and type, the last call on the type's entry
    before,         \* the format_context objects when the last call was made
    ctx,            \* the format_context the last call was made on
    type_arg,       \* the template argument T of the last call
    found           \* what has_formatter returned

vars == <<cplusplus, specialized, flagged, op, arg, range_type, range_items,
          strategy, result, quote, contexts, last_touch, before, ctx, type_arg,
          found>>

----------------------------------------------------------------------------
(* Bounds of the model *)

MaxLen == 2         \* longest array, container and iterator range
MaxTupleArity == 2  \* largest std::tuple
MaxText == 3        \* longest text passed to quoted_str, a leading BOM apart

----------------------------------------------------------------------------
(* Text literals, as bytes *)

\* the texts the library and the customizations of the programs write
TXT ==
    [null |-> <<110, 117, 108, 108>>,    \* "null"
     true |-> <<116, 114, 117, 101>>,    \* "true"
     false |-> <<102, 97, 108, 115, 101>>,    \* "false"
     LL |-> <<76, 76>>,    \* "LL"
     custom |-> <<99, 117, 115, 116, 111, 109, 58>>,    \* "custom:"
     comma |-> <<44, 32>>,    \* ", "
     colon |-> <<58, 32>>,    \* ": "
     at |-> <<32, 97, 116, 32>>,    \* " at "
     hex |-> <<48, 120>>,    \* "0x"
     pipe |-> <<124>>,    \* "|"
     lpar |-> <<40>>,    \* "("
     rpar |-> <<41>>,    \* ")"
     lbrk |-> <<91>>,    \* "["
     rbrk |-> <<93>>,    \* "]"
     lbrc |-> <<123>>,    \* "{"
     rbrc |-> <<125>>,    \* "}"
     minus |-> <<45>>]    \* "-"

RECURSIVE Digits(_, _)
Digits(n, base) ==
    LET d == n % base
        c == IF d < 10 THEN 48 + d ELSE 87 + d
    IN  IF n < base THEN <<c>> ELSE Append(Digits(n \div base, base), c)

\* std::to_string on an integer: decimal digits, '-' first when negative
std_to_string(n) == IF n < 0 THEN TXT.minus \o Digits(-n, 10) ELSE Digits(n, 10)

\* std::to_string on a double is printf("%f"): six fractional digits.  A double
\* is held in millionths, rounded as %f rounds it.
std_to_string_f(m) ==
    LET a == IF m < 0 THEN -m ELSE m
        f == Digits(1000000 + (a % 1000000), 10)
    IN  (IF m < 0 THEN TXT.minus ELSE <<>>) \o Digits(a \div 1000000, 10)
        \o <<46>> \o SubSeq(f, 2, 7)

\* operator<<(const void*): 0x and the address in hexadecimal
stream_pointer(a) == TXT.hex \o Digits(a, 16)

\* std::string(const char*): the bytes before the first NUL
RECURSIVE c_str_text(_)
c_str_text(mem) ==
    IF mem = <<>> \/ Head(mem) = 0 THEN <<>>
    ELSE <<Head(mem)>> \o c_str_text(Tail(mem))

----------------------------------------------------------------------------
(* Types *)

Ty(k, args, tr, n) == [k |-> k, args |-> args, tr |-> tr, n |-> n]
Prim(k) == Ty(k, <<>>, {}, 0)

T_bool == Prim("bool")
T_char == Prim("char")
T_schar == Prim("signed char")
T_uchar == Prim("unsigned char")
T_wchar == Prim("wchar_t")
T_char16 == Prim("char16_t")
T_char32 == Prim("char32_t")
T_int == Prim("int")
T_uint == Prim("unsigned int")
T_long == Prim("long")
T_llong == Prim("long long")
T_double == Prim("double")
T_string == Prim("std::string")
T_string_view == Prim("std::string_view")
T_cstr == Prim("const char*")
T_charptr == Prim("char*")
T_nullptr == Prim("std::nullptr_t")

Enum(underlying, scoped, id) ==
    Ty("enum", <<underlying>>, IF scoped THEN {"scoped"} ELSE {}, id)
Pair(a, b) == Ty("std::pair", <<a, b>>, {"first_second"}, 0)
Tuple(ts) == Ty("std::tuple", ts, {}, 0)
Array(e, n) == Ty("array", <<e>>, {}, n)
Vector(e) == Ty("std::vector", <<e>>, {"cbegin_cend"}, 0)
List(e) == Ty("std::list", <<e>>, {"cbegin_cend"}, 0)
Map(k, v) == Ty("std::map", <<Pair(k, v)>>, {"cbegin_cend"}, 0)
\* a user class: tr is a subset of {"to_string", "ostream", "cbegin_cend",
\* "first_second"}; e is the element type of its const_iterator, if any
Class(tr, es, id) == Ty("class", es, tr, id)

CharKinds == {"char", "signed char", "unsigned char"}
WideCharKinds == {"wchar_t", "char16_t", "char32_t"}
IntegerKinds == {"int", "unsigned int", "long", "long long"}
ArithmeticKinds ==
    {"bool", "double"} \cup CharKinds \cup WideCharKinds \cup IntegerKinds

----------------------------------------------------------------------------
(* Type traits *)

has_to_string(t) == t.k = "class" /\ "to_string" \in t.tr

\* operator<< into a std::ostringstream.  The character overloads for
\* wchar_t, char16_t and char32_t are deleted from C++20 on; before, these
\* types are inserted as integers.  An array decays to a pointer.
is_streamable(t, std) ==
    \/ t.k \in ArithmeticKinds \ WideCharKinds
    \/ t.k \in WideCharKinds /\ std < 202002
    \/ t.k \in {"std::string", "std::string_view", "const char*", "char*", "array"}
    \/ t.k = "std::nullptr_t" /\ std >= 201703
    \/ t.k = "enum" /\ "scoped" \notin t.tr
    \/ t.k = "class" /\ "ostream" \in t.tr

is_numeric(t) ==
    /\ t.k \in ArithmeticKinds
    /\ t.k # "bool"
    /\ t.k # "char"
    /\ t.k # "signed char"
    /\ t.k # "unsigned char"
    /\ t.k # "wchar_t"
    /\ t.k # "char16_t"
    /\ t.k # "char32_t"

has_cbegin_cend(t) ==
    \/ t.k \in {"std::string", "std::string_view"}
    \/ "cbegin_cend" \in t.tr

is_tuple(t) == t.k = "std::tuple"

is_pair(t) == t.k = "std::pair"

has_first_second(t) == "first_second" \in t.tr

\* std::decay<T>: an array becomes a pointer to its element
decay(t) ==
    IF t.k = "array"
    THEN IF t.args[1] = T_char THEN T_charptr ELSE Ty("pointer", t.args, {}, 0)
    ELSE t

is_quotable_string(t, std) ==
    \/ decay(t) = T_string
    \/ decay(t) = T_cstr
    \/ decay(t) = T_charptr
    \/ std >= 201703 /\ decay(t) = T_string_view

\* the array test that excludes only arrays of plain char
is_c_array_char_only(t) ==
    /\ t.k = "array"
    /\ t.args[1] # T_char

is_c_array(t) ==
    /\ t.k = "array"
    /\ t.args[1] # T_char
    /\ t.args[1] # T_schar
    /\ t.args[1] # T_uchar

is_enum(t) == t.k = "enum"

is_special_type(t, std) ==
    \/ t = T_bool
    \/ t = T_char
    \/ t = T_schar
    \/ t = T_uchar
    \/ t = T_string
    \/ t = T_cstr
    \/ decay(t) = T_charptr
    \/ t = T_nullptr
    \/ std >= 201703 /\ t = T_string_view

----------------------------------------------------------------------------
(* Values: a static type and a payload.                                    *)
(*   n     the number held (arithmetic, enum), a class's getValue()        *)
(*   s     the bytes held: a string's text, or the memory a char pointer   *)
(*         or a char array refers to, terminating NUL included             *)
(*   null  a pointer that is null                                          *)
(*   mem   the members: first and second of a pair or of a class that has  *)
(*         them, the elements of a tuple                                   *)
(*   el    the elements of an array, or of a container in iteration order  *)
(*   ts    what the class's to_string() returns                            *)
(*   os    what the class's operator<< inserts                             *)
(*   addr  the address of the object                                       *)

Val(ty, n, s, null, mem, el, ts, os, addr) ==
    [ty |-> ty, n |-> n, s |-> s, null |-> null, mem |-> mem, el |-> el,
     ts |-> ts, os |-> os, addr |-> addr]

Num(ty, n) == Val(ty, n, <<>>, FALSE, <<>>, <<>>, <<>>, <<>>, 0)
Text(ty, s) == Val(ty, 0, s, FALSE, <<>>, <<>>, <<>>, <<>>, 0)
NullPtr(ty) == Val(ty, 0, <<>>, TRUE, <<>>, <<>>, <<>>, <<>>, 0)
Struct(ty, mem) == Val(ty, 0, <<>>, FALSE, mem, <<>>, <<>>, <<>>, 0)
Elems(ty, el) == Val(ty, 0, <<>>, FALSE, <<>>, el, <<>>, <<>>, 0)
Obj(ty, n, mem, el, ts, os, addr) ==
    Val(ty, n, <<>>, FALSE, mem, el, ts, os, addr)

----------------------------------------------------------------------------
(* quoted_str *)

DEFAULT_QUOTATION_DELIMITER == 34
DEFAULT_QUOTATION_ESCAPE_CHAR == 92
DEFAULT_QUOTATION_IS_UTF8 == FALSE

\* the byte order mark test that is never met
bom_start_pos_unskipped(s) == 0

\* the UTF-8 byte order mark test on the first three bytes
bom_start_pos(s) ==
    IF Len(s) >= 3 /\ s[1] = 239 /\ s[2] = 187 /\ s[3] = 191 THEN 3 ELSE 0

\* every byte >= 0x80 taken as a sequence of its own
utf8_byte_count_single(c) == 1

\* number of bytes a lead byte c >= 0x80 announces
utf8_byte_count(c) ==
    IF (c \div 32) = 6 THEN 2           \* (c & 0xE0) == 0xC0
    ELSE IF (c \div 16) = 14 THEN 3     \* (c & 0xF0) == 0xE0
    ELSE IF (c \div 8) = 30 THEN 4      \* (c & 0xF8) == 0xF0
    ELSE 1

\* the loop of the UTF-8 aware mode that escapes the delimiters but not the
\* escape byte
RECURSIVE quoted_utf8_loop_delimiters_only(_, _, _, _, _)
quoted_utf8_loop_delimiters_only(s, i, start_delim, end_delim, escape) ==
    IF ~(i < Len(s)) THEN <<>>
    ELSE LET c == s[i + 1] IN
         IF c >= 128
         THEN LET byte_count == utf8_byte_count(c)
                  last == IF i + byte_count < Len(s) THEN i + byte_count ELSE Len(s)
              IN  SubSeq(s, i + 1, last)
                  \o quoted_utf8_loop_delimiters_only(s, i + byte_count, start_delim,
                                                      end_delim, escape)
         ELSE (IF c = start_delim \/ c = end_delim THEN <<escape>> ELSE <<>>)
              \o <<c>>
              \o quoted_utf8_loop_delimiters_only(s, i + 1, start_delim, end_delim,
                                                  escape)

\* the loop of the UTF-8 aware mode from index i (0-based, as in the source)
RECURSIVE quoted_utf8_loop(_, _, _, _, _)
quoted_utf8_loop(s, i, start_delim, end_delim, escape) ==
    IF ~(i < Len(s)) THEN <<>>
    ELSE LET c == s[i + 1] IN
         IF c >= 128
         THEN LET byte_count == utf8_byte_count(c)
                  last == IF i + byte_count < Len(s) THEN i + byte_count ELSE Len(s)
              IN  SubSeq(s, i + 1, last)
                  \o quoted_utf8_loop(s, i + byte_count, start_delim, end_delim, escape)
         ELSE (IF c = start_delim \/ c = end_delim \/ c = escape
               THEN <<escape>> ELSE <<>>)
              \o <<c>>
              \o quoted_utf8_loop(s, i + 1, start_delim, end_delim, escape)

\* the iteration that copies byte_count bytes without the test against the
\* length of the text
utf8_step_unguarded(s, i, start_delim, end_delim, escape) ==
    LET c == s[i + 1] IN
    IF c >= 128
    THEN LET byte_count == utf8_byte_count(c)
         IN  [i |-> i,
              reads |-> {i + j : j \in 0..(byte_count - 1)},
              out |-> [j \in 1..byte_count |->
                          IF i + j <= Len(s) THEN s[i + j] ELSE 0],
              next |-> i + byte_count]
    ELSE [i |-> i,
          reads |-> {i},
          out |-> (IF c = start_delim \/ c = end_delim \/ c = escape
                   THEN <<escape>> ELSE <<>>) \o <<c>>,
          next |-> i + 1]

\* one iteration of the loop of the UTF-8 aware mode at index i < s.length():
\* the indices of s it reads, the bytes it appends to the result, and the
\* index it leaves in i
utf8_step(s, i, start_delim, end_delim, escape) ==
    LET c == s[i + 1] IN
    IF c >= 128
    THEN LET byte_count == utf8_byte_count(c)
             js == {j \in 0..(byte_count - 1) : i + j < Len(s)}
         IN  [i |-> i,
              reads |-> {i} \cup {i + j : j \in js},
              out |-> [j \in 1..Cardinality(js) |-> s[i + j]],
              next |-> i + byte_count]
    ELSE [i |-> i,
          reads |-> {i},
          out |-> (IF c = start_delim \/ c = end_delim \/ c = escape
                   THEN <<escape>> ELSE <<>>) \o <<c>>,
          next |-> i + 1]

\* the iterations of the loop from index i, at most fuel of them
RECURSIVE utf8_steps(_, _, _, _, _, _)
utf8_steps(s, i, start_delim, end_delim, escape, fuel) ==
    IF ~(i < Len(s)) \/ fuel = 0 THEN <<>>
    ELSE LET step == utf8_step(s, i, start_delim, end_delim, escape)
         IN  <<step>> \o utf8_steps(s, step.next, start_delim, end_delim, escape,
                                     fuel - 1)

\* the byte-wise loop that escapes the delimiters but not the escape byte
RECURSIVE quoted_ascii_loop_delimiters_only(_, _, _, _, _)
quoted_ascii_loop_delimiters_only(s, i, start_delim, end_delim, escape) ==
    IF ~(i < Len(s)) THEN <<>>
    ELSE LET ch == s[i + 1] IN
         (IF ch = start_delim \/ ch = end_delim THEN <<escape>> ELSE <<>>)
         \o <<ch>>
         \o quoted_ascii_loop_delimiters_only(s, i + 1, start_delim, end_delim,
                                              escape)

\* the loop of the byte-wise mode from index i
RECURSIVE quoted_ascii_loop(_, _, _, _, _)
quoted_ascii_loop(s, i, start_delim, end_delim, escape) ==
    IF ~(i < Len(s)) THEN <<>>
    ELSE LET ch == s[i + 1] IN
         (IF ch = start_delim \/ ch = end_delim \/ ch = escape
          THEN <<escape>> ELSE <<>>)
         \o <<ch>>
         \o quoted_ascii_loop(s, i + 1, start_delim, end_delim, escape)

\* the text up to its first NUL byte, as a C string is read
RECURSIVE nul_terminated(_)
nul_terminated(s) ==
    IF s = <<>> \/ Head(s) = 0 THEN <<>>
    ELSE <<Head(s)>> \o nul_terminated(Tail(s))

\* the codec that reads the text as a C string
quoted_str_nul_terminated(s, start_delim, end_delim, escape, is_utf8) ==
    LET text == nul_terminated(s)
        start_pos == bom_start_pos(text)
        body == IF escape # 0
                THEN IF is_utf8
                     THEN quoted_utf8_loop(text, start_pos, start_delim, end_delim, escape)
                     ELSE quoted_ascii_loop(text, start_pos, start_delim, end_delim, escape)
                ELSE SubSeq(text, start_pos + 1, Len(text))
    IN  <<start_delim>> \o body \o <<end_delim>>

quoted_str(s, start_delim, end_delim, escape, is_utf8) ==
    LET start_pos == bom_start_pos(s)
        body == IF escape # 0
                THEN IF is_utf8
                     THEN quoted_utf8_loop(s, start_pos, start_delim, end_delim, escape)
                     ELSE quoted_ascii_loop(s, start_pos, start_delim, end_delim, escape)
                ELSE SubSeq(s, start_pos + 1, Len(s))
    IN  <<start_delim>> \o body \o <<end_delim>>

\* quoted_str(const char* s): the text of details::get_null_string() for a
\* null pointer, the default quoting of std::string(s) otherwise
quoted_str_c_string(value) ==
    IF value.null THEN <<110, 117, 108, 108>>
    ELSE quoted_str(c_str_text(value.s), DEFAULT_QUOTATION_DELIMITER,
                    DEFAULT_QUOTATION_DELIMITER, DEFAULT_QUOTATION_ESCAPE_CHAR,
                    DEFAULT_QUOTATION_IS_UTF8)

----------------------------------------------------------------------------
(* Overload resolution among the to_string_impl overloads *)

Templates ==
    {"method", "numeric", "enum", "pair", "tuple", "container", "streamable",
     "fallback", "c_array"}

\* the non-template overloads, named by their parameter type
NonTemplates(std) ==
    {"std::string", "const char*", "bool", "char", "signed char",
     "unsigned char", "std::nullptr_t"}
    \cup (IF std >= 201703 THEN {"std::string_view"} ELSE {})

enable_method(t, std) == has_to_string(t) /\ ~is_special_type(t, std)

\* the numeric overload that steps back for a flagged type
enable_numeric_unless_flagged(t, std) ==
    is_numeric(t) /\ ~has_to_string(t) /\ ~is_special_type(t, std)
    /\ t \notin flagged

enable_numeric(t, std) ==
    is_numeric(t) /\ ~has_to_string(t) /\ ~is_special_type(t, std)

enable_enum(t, std) ==
    is_enum(t) /\ ~has_to_string(t) /\ ~is_special_type(t, std)

\* the pair overload that takes every type with members first and second
enable_pair_by_members(t, std) ==
    /\ ~has_to_string(t) /\ ~is_numeric(t) /\ ~is_special_type(t, std)
    /\ ~is_enum(t) /\ (is_pair(t) \/ has_first_second(t))

enable_pair(t, std) ==
    /\ ~has_to_string(t) /\ ~is_numeric(t) /\ ~is_special_type(t, std)
    /\ ~is_enum(t) /\ is_pair(t)

enable_tuple(t, std) ==
    /\ ~has_to_string(t) /\ ~is_numeric(t) /\ ~is_special_type(t, std)
    /\ ~is_enum(t) /\ ~is_pair(t) /\ is_tuple(t)

enable_container(t, std) ==
    /\ ~has_to_string(t) /\ ~is_numeric(t) /\ ~is_special_type(t, std)
    /\ ~is_enum(t) /\ ~is_pair(t) /\ ~is_tuple(t) /\ ~is_c_array(t)
    /\ has_cbegin_cend(t)

\* the stream overload without the exclusion of the cbegin/cend overload
enable_streamable_overlapping(t, std) ==
    /\ ~has_to_string(t) /\ ~is_numeric(t) /\ ~is_special_type(t, std)
    /\ ~is_enum(t) /\ ~is_pair(t) /\ ~is_tuple(t) /\ ~is_c_array(t)
    /\ is_streamable(t, std)

enable_streamable(t, std) ==
    /\ ~has_to_string(t) /\ ~is_numeric(t) /\ ~is_special_type(t, std)
    /\ ~is_enum(t) /\ ~is_pair(t) /\ ~is_tuple(t) /\ ~is_c_array(t)
    /\ ~has_cbegin_cend(t) /\ is_streamable(t, std)

enable_fallback(t, std) ==
    /\ ~has_to_string(t) /\ ~is_numeric(t) /\ ~is_special_type(t, std)
    /\ ~is_enum(t) /\ ~is_pair(t) /\ ~is_tuple(t) /\ ~is_c_array(t)
    /\ ~has_cbegin_cend(t) /\ ~is_streamable(t, std)

enable_c_array(t, std) ==
    /\ ~has_to_string(t) /\ ~is_numeric(t) /\ ~is_special_type(t, std)
    /\ ~is_enum(t) /\ ~is_pair(t) /\ ~is_tuple(t) /\ is_c_array(t)

enabled_templates(t, std) ==
    {c \in Templates :
        \/ c = "method" /\ enable_method(t, std)
        \/ c = "numeric" /\ enable_numeric(t, std)
        \/ c = "enum" /\ enable_enum(t, std)
        \/ c = "pair" /\ enable_pair(t, std)
        \/ c = "tuple" /\ enable_tuple(t, std)
        \/ c = "container" /\ enable_container(t, std)
        \/ c = "streamable" /\ enable_streamable(t, std)
        \/ c = "fallback" /\ enable_fallback(t, std)
        \/ c = "c_array" /\ enable_c_array(t, std)}

\* Rank of the implicit conversion of an argument of type t to the parameter
\* of the non-template overload p: 0 exact match (identity, array-to-pointer,
\* qualification), 2 conversion, 3 pointer-to-bool conversion, 4 user-defined
\* conversion, 9 no conversion.  A template overload takes const T& and
\* always binds with rank 0.
conversion_rank(t, p) ==
    LET char_pointer == t = T_cstr \/ decay(t) = T_charptr
        unscoped == t.k = "enum" /\ "scoped" \notin t.tr
    IN  CASE t.k = p -> 0
          [] p = "bool" /\ (t.k \in ArithmeticKinds \/ unscoped) -> 2
          [] p = "bool" /\ (t.k \in {"const char*", "char*", "array"}) -> 3
          [] p \in CharKinds /\ (t.k \in ArithmeticKinds \/ unscoped) -> 2
          [] p = "const char*" /\ char_pointer -> 0
          [] p = "const char*" /\ t = T_nullptr -> 2
          [] p = "std::string" /\ (char_pointer \/ t = T_nullptr) -> 4
          [] p = "std::string_view"
               /\ (char_pointer \/ t = T_nullptr \/ t = T_string) -> 4
          [] OTHER -> 9

viable(t, std) ==
    enabled_templates(t, std)
    \cup {p \in NonTemplates(std) : conversion_rank(t, p) < 9}

candidate_rank(c, t) == IF c \in Templates THEN 0 ELSE conversion_rank(t, c)

\* c is a better candidate than d: a better conversion, or an equal one and
\* c is not a template while d is
better(c, d, t) ==
    \/ candidate_rank(c, t) < candidate_rank(d, t)
    \/ /\ candidate_rank(c, t) = candidate_rank(d, t)
       /\ c \notin Templates
       /\ d \in Templates

best_viable(t, std) ==
    {c \in viable(t, std) : \A d \in viable(t, std) \ {c} : better(c, d, t)}

\* the overload the call to_string_impl(value) resolves to; the call does not
\* compile when there is not exactly one best viable candidate
overload(t, std) ==
    IF Cardinality(best_viable(t, std)) = 1
    THEN CHOOSE c \in best_viable(t, std) : TRUE
    ELSE "ill-formed"

----------------------------------------------------------------------------
(* ustr::to_string and the to_string_impl overloads.  b is the build:      *)
(* b.std the language standard, b.specialized the types for which the      *)
(* program defines an explicit specialization to_string_impl<T>.           *)

RECURSIVE to_string(_, _)
RECURSIVE to_string_range(_, _, _)

to_string_forward(value, b) == to_string(value, b)

\* the quoting that adds the delimiters and escapes nothing
apply_quotation_impl_unescaped(value, quotable, b) ==
    IF quotable
    THEN quoted_str(to_string_forward(value, b),
                    DEFAULT_QUOTATION_DELIMITER,
                    DEFAULT_QUOTATION_DELIMITER,
                    0,
                    DEFAULT_QUOTATION_IS_UTF8)
    ELSE to_string_forward(value, b)

apply_quotation_impl(value, quotable, b) ==
    IF quotable
    THEN quoted_str(to_string_forward(value, b),
                    DEFAULT_QUOTATION_DELIMITER,
                    DEFAULT_QUOTATION_DELIMITER,
                    DEFAULT_QUOTATION_ESCAPE_CHAR,
                    DEFAULT_QUOTATION_IS_UTF8)
    ELSE to_string_forward(value, b)

\* the quoting decision that leaves a null pointer without quotes
apply_quotation_if_needed_null_plain(value, b) ==
    LET value_type == decay(value.ty)
    IN  apply_quotation_impl(value,
                             is_quotable_string(value_type, b.std) /\ ~value.null, b)

apply_quotation_if_needed(value, b) ==
    LET value_type == decay(value.ty)
    IN  apply_quotation_impl(value, is_quotable_string(value_type, b.std), b)

get_null_string == TXT.null

\* the initializer list expansion over the indices from i on (1-based);
\* first is the flag of the source
RECURSIVE tuple_expansion(_, _, _, _)
tuple_expansion(mem, i, first, b) ==
    IF i > Len(mem) THEN <<>>
    ELSE (IF first THEN <<>> ELSE TXT.comma)
         \o apply_quotation_if_needed(mem[i], b)
         \o tuple_expansion(mem, i + 1, FALSE, b)

\* the tuple formatter that writes the separator after every element
tuple_to_string_impl_trailing(tuple, b) ==
    TXT.lpar \o tuple_expansion(tuple.mem, 1, TRUE, b)
    \o (IF Len(tuple.mem) > 0 THEN TXT.comma ELSE <<>>) \o TXT.rpar

tuple_to_string_impl(tuple, b) ==
    TXT.lpar \o tuple_expansion(tuple.mem, 1, TRUE, b) \o TXT.rpar

\* the method overload that adds the address of the object
impl_method_with_address(value) == value.ts \o stream_pointer(value.addr)

impl_method(value) == value.ts

impl_string(value) == value.s

\* the C string overload without the null test: an empty text for null
impl_c_string_unchecked(value) == c_str_text(value.s)

impl_c_string(value) ==
    IF ~value.null THEN c_str_text(value.s) ELSE get_null_string

impl_bool(value) == IF value.n # 0 THEN TXT.true ELSE TXT.false

impl_char(value) == <<value.n>>

impl_signed_char(value) == <<value.n % 256>>

impl_unsigned_char(value) == <<value.n % 256>>

impl_nullptr(value) == get_null_string

impl_string_view(value) == value.s

impl_numeric(value) ==
    IF value.ty.k = "double" THEN std_to_string_f(value.n)
    ELSE std_to_string(value.n)

\* static_cast to the underlying type keeps the number; std::to_string takes
\* an underlying type narrower than int by integral promotion
\* the enum overload that forwards the underlying value to the char overloads
impl_enum_as_underlying(value) ==
    IF value.ty.args[1].k \in CharKinds THEN <<value.n % 256>>
    ELSE std_to_string(value.n)

impl_enum(value) == std_to_string(value.n)

\* the pair overload that writes second before first
impl_pair_swapped(value, b) ==
    TXT.lpar \o apply_quotation_if_needed(value.mem[2], b) \o TXT.comma
    \o apply_quotation_if_needed(value.mem[1], b) \o TXT.rpar

impl_pair(value, b) ==
    TXT.lpar \o apply_quotation_if_needed(value.mem[1], b) \o TXT.comma
    \o apply_quotation_if_needed(value.mem[2], b) \o TXT.rpar

impl_tuple(value, b) == tuple_to_string_impl(value, b)

impl_container(value, b) == to_string_range(value.ty.args[1], value.el, b)

\* ss << value: a class inserts what its operator<< writes; wchar_t, char16_t
\* and char32_t are promoted and inserted as integers; an array of signed or
\* unsigned char is inserted as the C string it holds
impl_streamable(value) ==
    CASE value.ty.k = "class" -> value.os
      [] value.ty.k \in WideCharKinds -> std_to_string(value.n)
      [] value.ty.k = "array" -> c_str_text(value.s)
      [] OTHER -> value.os

\* typeid(T).name(), implementation-defined
type_name(t) ==
    CASE t.k = "class" -> <<67>> \o Digits(t.n, 10)
      [] t.k = "wchar_t" -> <<119>>
      [] t.k = "char16_t" -> <<68, 115>>
      [] t.k = "char32_t" -> <<68, 105>>
      [] OTHER -> <<63>>

impl_fallback(value) ==
    TXT.lbrk \o type_name(value.ty) \o TXT.at \o stream_pointer(value.addr)
    \o TXT.rbrk

\* the loop over the array from index i (0-based)
RECURSIVE c_array_loop(_, _, _, _)
c_array_loop(value, i, array_size, b) ==
    IF ~(i < array_size) THEN <<>>
    ELSE (IF i > 0 THEN TXT.comma ELSE <<>>)
         \o apply_quotation_if_needed(value.el[i + 1], b)
         \o c_array_loop(value, i + 1, array_size, b)

\* the array overload with the parentheses of the tuple overload
impl_c_array_parentheses(value, b) ==
    LET array_size == value.ty.n
    IN  TXT.lpar \o c_array_loop(value, 0, array_size, b) \o TXT.rpar

impl_c_array(value, b) ==
    LET array_size == value.ty.n
    IN  TXT.lbrk \o c_array_loop(value, 0, array_size, b) \o TXT.rbrk

\* the bodies of the explicit specializations that programs define: the
\* LL suffix for long long, the pipe format for std::list, and "custom:" with
\* getValue() for a class
RECURSIVE custom_list_loop(_, _, _, _)
custom_list_loop(el, i, first, b) ==
    IF i > Len(el) THEN <<>>
    ELSE (IF ~first THEN TXT.pipe ELSE <<>>)
         \o to_string_forward(el[i], b)
         \o custom_list_loop(el, i + 1, FALSE, b)

custom_to_string_impl(value, b) ==
    CASE value.ty.k = "long long" -> std_to_string(value.n) \o TXT.LL
      [] value.ty.k = "std::list" ->
            TXT.pipe \o custom_list_loop(value.el, 1, TRUE, b) \o TXT.pipe
      [] OTHER -> TXT.custom \o std_to_string(value.n)

\* a specialization that takes over the whole numeric overload
has_specialization_by_overload(t, b) ==
    \E u \in b.specialized : u = t \/ (is_numeric(u) /\ is_numeric(t))

\* an explicit specialization to_string_impl<T> replaces the body of the
\* template that is enabled for T
has_specialization(t, b) == t \in b.specialized

to_string_impl(value, b) ==
    LET c == overload(value.ty, b.std)
    IN  IF c \in Templates /\ has_specialization(value.ty, b)
        THEN custom_to_string_impl(value, b)
        ELSE CASE c = "method" -> impl_method(value)
               [] c = "std::string" -> impl_string(value)
               [] c = "const char*" -> impl_c_string(value)
               [] c = "bool" -> impl_bool(value)
               [] c = "char" -> impl_char(value)
               [] c = "signed char" -> impl_signed_char(value)
               [] c = "unsigned char" -> impl_unsigned_char(value)
               [] c = "std::nullptr_t" -> impl_nullptr(value)
               [] c = "std::string_view" -> impl_string_view(value)
               [] c = "numeric" -> impl_numeric(value)
               [] c = "enum" -> impl_enum(value)
               [] c = "pair" -> impl_pair(value, b)
               [] c = "tuple" -> impl_tuple(value, b)
               [] c = "container" -> impl_container(value, b)
               [] c = "streamable" -> impl_streamable(value)
               [] c = "fallback" -> impl_fallback(value)
               [] c = "c_array" -> impl_c_array(value, b)
               [] OTHER -> <<>>

to_string(value, b) == to_string_impl(value, b)

\* the pair-like element whose key is written without the quoting decision
add_iterator_value_plain_key(value, pair_like, b) ==
    IF pair_like
    THEN to_string_forward(value.mem[1], b) \o TXT.colon
         \o apply_quotation_if_needed(value.mem[2], b)
    ELSE apply_quotation_if_needed(value, b)

add_iterator_value(value, pair_like, b) ==
    IF pair_like
    THEN apply_quotation_if_needed(value.mem[1], b) \o TXT.colon
         \o apply_quotation_if_needed(value.mem[2], b)
    ELSE apply_quotation_if_needed(value, b)

\* the loop of to_string(begin, end) from the i-th element on (1-based)
RECURSIVE range_loop(_, _, _, _, _)
range_loop(value_type, items, i, first, b) ==
    IF i > Len(items) THEN <<>>
    ELSE (IF ~first THEN TXT.comma ELSE <<>>)
         \o add_iterator_value(items[i], has_first_second(value_type), b)
         \o range_loop(value_type, items, i + 1, FALSE, b)

\* the range formatter that looks for a pair in the range, not in the type
to_string_range_by_content(value_type, items, b) ==
    LET is_pair_ == items # <<>> /\ has_first_second(value_type)
    IN  (IF is_pair_ THEN TXT.lbrc ELSE TXT.lbrk)
        \o range_loop(value_type, items, 1, TRUE, b)
        \o (IF is_pair_ THEN TXT.rbrc ELSE TXT.rbrk)

to_string_range(value_type, items, b) ==
    LET is_pair_ == has_first_second(value_type)
    IN  (IF is_pair_ THEN TXT.lbrc ELSE TXT.lbrk)
        \o range_loop(value_type, items, 1, TRUE, b)
        \o (IF is_pair_ THEN TXT.rbrc ELSE TXT.rbrk)

----------------------------------------------------------------------------
(* The programs and inputs of the model *)

E_color == Enum(T_int, FALSE, 1)        \* enum Color { ... }
E_status == Enum(T_uchar, TRUE, 2)      \* enum class Status : unsigned char

ClassTraits == SUBSET {"to_string", "ostream", "cbegin_cend", "first_second"}

ClassId(tr) ==
    (IF "to_string" \in tr THEN 1 ELSE 0) + (IF "ostream" \in tr THEN 2 ELSE 0)
    + (IF "cbegin_cend" \in tr THEN 4 ELSE 0)
    + (IF "first_second" \in tr THEN 8 ELSE 0)

ClassOf(tr) ==
    Class(tr, IF "cbegin_cend" \in tr THEN <<T_int>> ELSE <<>>, ClassId(tr))

C_plain == ClassOf({})
C_both == ClassOf({"to_string", "ostream"})


\* the types a program of the model gives an explicit specialization, and
\* the types it may flag with has_custom_specialization
SpecializableTypes == {T_llong, List(T_int), C_both}

\* the builds: a program without customization under each standard, and the
\* C++11 programs with the specializations, with the flags, and with both
Programs ==
    {[std |-> s, specialized |-> {}, flagged |-> {}] : s \in {201103, 201703, 202002}}
    \cup {[std |-> 201103, specialized |-> sp, flagged |-> fl] :
            sp \in {{}, SpecializableTypes}, fl \in {{}, {T_llong, T_long, C_both}}}

ScalarTypes(std) ==
    {T_bool, T_char, T_schar, T_uchar, T_wchar, T_char16, T_char32, T_int,
     T_uint, T_long, T_llong, T_double, T_string, T_cstr, T_charptr, T_nullptr,
     E_color, E_status}
    \cup (IF std >= 201703 THEN {T_string_view} ELSE {})

bytes_hi == <<104, 105>>                    \* hi
bytes_quote == <<97, 34, 98>>               \* a"b
bytes_a == <<97>>                           \* a

ScalarValues(t) ==
    CASE t = T_bool -> {Num(t, 0), Num(t, 1)}
      [] t = T_char -> {Num(t, 97), Num(t, 34)}
      [] t = T_schar -> {Num(t, 65), Num(t, -2)}
      [] t = T_uchar -> {Num(t, 66), Num(t, 200)}
      [] t = T_wchar ->
            {Val(t, 65, <<>>, FALSE, <<>>, <<>>, <<>>, <<>>, 4096),
             Val(t, 8364, <<>>, FALSE, <<>>, <<>>, <<>>, <<>>, 4100)}
      [] t = T_char16 -> {Num(t, 66)}
      [] t = T_char32 -> {Num(t, 67)}
      [] t = T_int -> {Num(t, -12), Num(t, 0), Num(t, 7)}
      [] t = T_uint -> {Num(t, 42)}
      [] t = T_long -> {Num(t, 5), Num(t, -40)}
      [] t = T_llong -> {Num(t, 0), Num(t, -3)}
      [] t = T_double -> {Num(t, 0), Num(t, 1500000), Num(t, -250000)}
      [] t = T_string -> {Text(t, <<>>), Text(t, bytes_a), Text(t, bytes_quote)}
      [] t = T_string_view -> {Text(t, bytes_hi)}
      [] t = T_cstr ->
            {NullPtr(t), Text(t, bytes_hi \o <<0>>), Text(t, TXT.null \o <<0>>)}
      [] t = T_charptr -> {Text(t, bytes_a \o <<0>>), Text(t, <<92, 34, 0>>)}
      [] t = T_nullptr -> {NullPtr(t)}
      [] t = E_color -> {Num(t, 0), Num(t, 20), Num(t, -1)}
      [] t = E_status -> {Num(t, 65), Num(t, 200)}
      [] OTHER -> {}

\* the objects of a class: getValue(), the members first and second, the
\* elements, the texts of to_string() and of operator<<, and the address
ClassValues(t) ==
    {Obj(t, 3 + t.n,
         IF "first_second" \in t.tr
         THEN <<Num(T_int, 7), Text(T_string, bytes_a)>> ELSE <<>>,
         IF "cbegin_cend" \in t.tr THEN <<Num(T_int, 7), Num(T_int, 0)>> ELSE <<>>,
         IF "to_string" \in t.tr THEN <<84>> \o Digits(t.n, 10) ELSE <<>>,
         IF "ostream" \in t.tr THEN <<83>> \o Digits(t.n, 10) ELSE <<>>,
         a) : a \in IF t \in {C_plain, C_both} THEN {4096, 48879} ELSE {4096}}

\* a < b for the keys of a std::map: numbers, or texts byte by byte
RECURSIVE LexLess(_, _)
LexLess(a, b) ==
    IF b = <<>> THEN FALSE
    ELSE IF a = <<>> THEN TRUE
    ELSE IF Head(a) # Head(b) THEN Head(a) < Head(b)
    ELSE LexLess(Tail(a), Tail(b))

KeyLess(x, y) == IF x.ty = T_string THEN LexLess(x.s, y.s) ELSE x.n < y.n

SeqsUpTo(S, n) == UNION {[1..k -> S] : k \in 0..n}

\* no two of the objects share an address (0: an address the model leaves out)
DistinctObjects(xs) ==
    \A i, j \in 1..Len(xs) : i < j /\ xs[i].addr # 0 => xs[i].addr # xs[j].addr

\* the char arrays of the model: the memory of each holds a NUL
CharArrayMemories == {<<104, 105, 0>>, <<97, 0, 98, 0>>, <<0>>, <<34, 0>>}

RECURSIVE ValuesOf(_)
RECURSIVE MemberTuples(_)
MemberTuples(ts) ==
    IF ts = <<>> THEN {<<>>}
    ELSE {m \in {<<h>> \o r : h \in ValuesOf(Head(ts)),
                                r \in MemberTuples(Tail(ts))} : DistinctObjects(m)}

ValuesOf(t) ==
    CASE t.k = "std::pair" -> {Struct(t, m) : m \in MemberTuples(t.args)}
      [] t.k = "std::tuple" -> {Struct(t, m) : m \in MemberTuples(t.args)}
      [] t.k = "array" /\ t.args[1].k \in CharKinds ->
            {Val(t, 0, m, FALSE, <<>>, [i \in 1..Len(m) |-> Num(t.args[1], m[i])],
                 <<>>, <<>>, 0) : m \in {x \in CharArrayMemories : Len(x) = t.n}}
      [] t.k = "array" /\ t.args[1].k \notin CharKinds ->
            {Elems(t, el) : el \in
                {x \in [1..t.n -> ValuesOf(t.args[1])] : DistinctObjects(x)}}
      [] t.k \in {"std::vector", "std::list"} ->
            {Elems(t, el) : el \in
                {x \in SeqsUpTo(ValuesOf(t.args[1]), MaxLen) : DistinctObjects(x)}}
      [] t.k = "std::map" ->
            {Elems(t, el) : el \in
                {x \in SeqsUpTo(ValuesOf(t.args[1]), MaxLen) :
                    \A i \in 1..(Len(x) - 1) :
                        KeyLess(x[i].mem[1], x[i + 1].mem[1])}}
      [] t.k = "class" -> ClassValues(t)
      [] OTHER -> ScalarValues(t)

\* member types of the pairs of the model
PairMemberTypes == {T_int, T_string, T_cstr, T_char, C_plain}

PairTypes == {Pair(a, c) : a \in PairMemberTypes, c \in PairMemberTypes}

TupleElemTypes == {T_long, T_string}

TupleTypes ==
    {Tuple(ts) : ts \in SeqsUpTo(TupleElemTypes, MaxTupleArity)}

ArrayTypes ==
    {Array(e, n) : e \in {T_string, T_cstr, T_bool, E_color}, n \in 1..MaxLen}
    \cup {Array(e, Len(m)) : e \in {T_char, T_schar, T_uchar},
                             m \in CharArrayMemories}

ContainerTypes ==
    {Vector(e) : e \in {T_int, T_string, T_cstr, T_bool, T_llong, T_wchar,
                        E_status, C_plain, Pair(T_bool, T_string)}}
    \cup {Map(T_int, T_string), Map(T_string, T_int), Map(T_string, T_string),
          Map(T_int, T_cstr), List(T_int), List(T_string)}

Types(std) ==
    ScalarTypes(std) \cup {ClassOf(tr) : tr \in ClassTraits}
    \cup PairTypes \cup TupleTypes \cup ArrayTypes \cup ContainerTypes
    \cup
    {Pair(Pair(T_int, T_int), T_string),
     Pair(T_bool, T_llong),
     Pair(T_string, Vector(T_bool)),
     Pair(E_status, Tuple(<<T_cstr>>)),
     Pair(E_color, T_double),
     Tuple(<<Pair(T_int, T_int), T_string>>),
     Tuple(<<Tuple(<<>>), Vector(T_string)>>),
     Tuple(<<E_color, T_charptr>>),
     Array(Array(T_int, 2), 1),
     Array(Array(T_char, 3), 2),
     Array(Pair(T_string, T_int), 1),
     Array(Vector(T_string), 1),
     Array(T_double, 2),
     Array(T_charptr, 1),
     Pair(T_charptr, T_int),
     Vector(T_charptr),
     Vector(Vector(T_nullptr)),
     Vector(ClassOf({"cbegin_cend"})),
     Vector(Tuple(<<T_bool>>)),
     Vector(C_both),
     Vector(ClassOf({"first_second"})),
     Map(E_color, T_bool),
     Map(T_llong, Pair(T_string, T_char16))}

Values(std) == UNION {ValuesOf(t) : t \in Types(std)}

\* the iterator ranges: the element type of the iterator and the elements,
\* those of containers of the model among them
Ranges(std) ==
    {<<c.ty.args[1], c.el>> :
        c \in UNION {ValuesOf(t) : t \in
    {Vector(T_int), Vector(T_string), Vector(C_plain), Vector(Vector(T_nullptr)),
     Map(T_string, T_int), Map(T_int, T_cstr), Map(E_color, T_bool),
     List(T_int), Vector(Pair(T_bool, T_string)), Vector(T_charptr)}}}
    \cup {<<T_char, [i \in 1..Len(m) |-> Num(T_char, m[i])]>> :
            m \in {bytes_hi, bytes_quote}}
    \cup UNION {{<<t, el>> : el \in SeqsUpTo(ValuesOf(t), 1)} :
                    t \in {ClassOf({"first_second"}),
                           ClassOf({"first_second", "to_string"}),
                           ClassOf({"first_second", "ostream"})}}

build == [std |-> cplusplus, specialized |-> specialized]

----------------------------------------------------------------------------
(* The state machine: a built program calls ustr::to_string *)

NoValue == Num(T_int, 0)

NoQuote ==
    [s |-> <<>>, start_delim |-> 0, end_delim |-> 0, escape |-> 0,
     is_utf8 |-> FALSE]

\* the format_context objects a program may have
ContextIds == {1, 2}

\* the types a program registers formatters for
FormatterTypes == {T_string, T_llong}

\* a format_context that is not constructed, or destroyed
NoContext == [alive |-> FALSE, formatters_ |-> {}]

\* no call has touched the entry of the type
Untouched == [t \in FormatterTypes |-> [call |-> "none", formatter |-> 0]]

Init ==
    /\ \E p \in Programs :
          /\ cplusplus = p.std
          /\ specialized = p.specialized
          /\ flagged = p.flagged
    /\ op = "none"
    /\ arg = NoValue
    /\ range_type = T_int
    /\ range_items = <<>>
    /\ strategy = "none"
    /\ result = <<>>
    /\ quote = NoQuote
    /\ contexts = [c \in ContextIds |-> NoContext]
    /\ last_touch = [c \in ContextIds |-> Untouched]
    /\ before = [c \in ContextIds |-> NoContext]
    /\ ctx = 0
    /\ type_arg = T_int
    /\ found = FALSE

\* std::string r = ustr::to_string(value)
Call_to_string(value) ==
    /\ op = "none"
    /\ op' = "to_string"
    /\ arg' = value
    /\ strategy' = overload(value.ty, cplusplus)
    /\ result' = to_string(value, build)
    /\ UNCHANGED <<cplusplus, specialized, flagged, range_type, range_items>>
    /\ UNCHANGED <<quote, contexts, last_touch, before, ctx, type_arg, found>>

\* std::string r = ustr::to_string(begin, end)
Call_to_string_range(value_type, items) ==
    /\ op = "none"
    /\ op' = "to_string_range"
    /\ range_type' = value_type
    /\ range_items' = items
    /\ strategy' = "none"
    /\ result' = to_string_range(value_type, items, build)
    /\ UNCHANGED <<cplusplus, specialized, flagged, arg>>
    /\ UNCHANGED <<quote, contexts, last_touch, before, ctx, type_arg, found>>

\* std::string r = ustr::quoted_str(s) for a const char* s
Call_quoted_str_c_string(value) ==
    /\ op = "none"
    /\ op' = "quoted_str_c_string"
    /\ arg' = value
    /\ strategy' = "none"
    /\ result' = quoted_str_c_string(value)
    /\ UNCHANGED <<cplusplus, specialized, flagged, range_type, range_items>>
    /\ UNCHANGED <<quote, contexts, last_touch, before, ctx, type_arg, found>>

\* the caller drops the result
Return ==
    /\ op \notin {"none", "terminated"}
    /\ op' = "none"
    /\ arg' = NoValue
    /\ range_type' = T_int
    /\ range_items' = <<>>
    /\ strategy' = "none"
    /\ result' = <<>>
    /\ quote' = NoQuote
    /\ ctx' = 0
    /\ type_arg' = T_int
    /\ found' = FALSE
    /\ before' = contexts
    /\ UNCHANGED <<cplusplus, specialized, flagged, contexts, last_touch>>

Next ==
    \/ op = "none" /\ \E value \in Values(cplusplus) : Call_to_string(value)
    \/ op = "none" /\ \E r \in Ranges(cplusplus) : Call_to_string_range(r[1], r[2])
    \/ op = "none" /\ \E value \in ValuesOf(T_cstr) : Call_quoted_str_c_string(value)
    \/ Return

Spec == Init /\ [][Next]_vars

----------------------------------------------------------------------------
(* The state machine of quoted_str: a program calls the quoting codec *)

BOM == <<239, 187, 191>>

\* the bytes of the texts: " \ a, NUL, the lead byte of a two-byte and of a
\* three-byte sequence, and a continuation byte
QuoteBytes == {34, 92, 97, 0, 195, 226, 169}

\* the texts: every text up to MaxText bytes, the same after a byte order
\* mark, and after two of them
QuoteTexts ==
    SeqsUpTo(QuoteBytes, MaxText)
    \cup {BOM \o t : t \in SeqsUpTo(QuoteBytes, MaxText)}
    \cup {BOM \o BOM \o t : t \in SeqsUpTo(QuoteBytes, 1)}

\* start delimiter, end delimiter, escape: the defaults, two different
\* delimiters, no escaping, the delimiter as escape, a delimiter >= 0x80
QuoteDelimiters ==
    {<<34, 34, 92>>, <<97, 34, 92>>, <<34, 34, 0>>, <<34, 34, 34>>,
     <<169, 34, 92>>}

Init_quoted_str ==
    /\ Init
    /\ cplusplus = 201103
    /\ specialized = {}
    /\ flagged = {}

\* std::string r = ustr::quoted_str(s, start_delim, end_delim, escape, is_utf8)
Call_quoted_str(s, start_delim, end_delim, escape, is_utf8) ==
    /\ op = "none"
    /\ op' = "quoted_str"
    /\ quote' = [s |-> s, start_delim |-> start_delim, end_delim |-> end_delim,
                 escape |-> escape, is_utf8 |-> is_utf8]
    /\ result' = quoted_str(s, start_delim, end_delim, escape, is_utf8)
    /\ UNCHANGED <<cplusplus, specialized, flagged, arg, range_type,
                   range_items, strategy, contexts, last_touch, before, ctx,
                   type_arg, found>>

Next_quoted_str ==
    \/ op = "none" /\ \E s \in QuoteTexts, d \in QuoteDelimiters, u \in BOOLEAN :
                        Call_quoted_str(s, d[1], d[2], d[3], u)
    \/ Return

SpecQuotedStr == Init_quoted_str /\ [][Next_quoted_str]_vars

----------------------------------------------------------------------------
(* format_context *)

\* the formatters a program registers: 1 a formatter object, passed as
\* std::shared_ptr<formatter_base<T>>; 2 a lambda, wrapped in lambda_formatter
FormatterIds == {1, 2}

\* formatter->format(value): the text the formatter of the program returns,
\* #1 or #2 and the value
format(f, value) ==
    <<35, 48 + f>>
    \o (IF value.ty = T_string THEN value.s ELSE std_to_string(value.n))

\* the lookup that takes every numeric type for the same key
map_find_numeric(m, key) ==
    {e \in m : e[1] = key \/ (is_numeric(e[1]) /\ is_numeric(key))}

\* formatters_.find(key): the entries with the key (none: end())
map_find(m, key) == {e \in m : e[1] = key}

\* the assignment that keeps the entry the map has
map_assign_keep_first(m, key, f) ==
    IF map_find(m, key) # {} THEN m ELSE m \cup {<<key, f>>}

\* formatters_[key] = formatter
map_assign(m, key, f) == {e \in m : e[1] # key} \cup {<<key, f>>}

\* the erase that empties the map
map_erase_all(m, key) == {}

\* formatters_.erase(key)
map_erase(m, key) == {e \in m : e[1] # key}

\* the member formatters_ shared by all the objects
with_formatters_static(cs, c, m) ==
    [d \in DOMAIN cs |-> IF cs[d].alive THEN [cs[d] EXCEPT !.formatters_ = m]
                                       ELSE cs[d]]

\* the objects cs after the member formatters_ of the object c becomes m
with_formatters_(cs, c, m) == [cs EXCEPT ![c].formatters_ = m]

\* the test for any formatter at all
has_formatter_of_any_type(m, T) == m # {}

has_formatter(m, T) == map_find(m, T) # {}

\* the context that hands its formatters down to the elements of a vector
context_to_string_nested(m, value, b) ==
    LET it == map_find(m, value.ty)
    IN  IF it # {} THEN format((CHOOSE e \in it : TRUE)[2], value)
        ELSE IF value.ty.k = "std::vector" /\ map_find(m, value.ty.args[1]) # {}
        THEN to_string_range(T_string,
                 [i \in 1..Len(value.el) |->
                     Text(T_string,
                          format((CHOOSE e \in map_find(m, value.ty.args[1]) : TRUE)[2],
                                 value.el[i]))], b)
        ELSE to_string(value, b)

\* format_context::to_string of the object with the formatters m
context_to_string(m, value, b) ==
    LET it == map_find(m, value.ty)
    IN  IF it # {} THEN format((CHOOSE e \in it : TRUE)[2], value)
        ELSE to_string(value, b)

\* an empty std::shared_ptr<formatter_base<T>>
NullFormatter == 0

\* what a call of format_context::to_string does: it returns the text of
\* context_to_string, and with an empty pointer in the entry of the type the
\* call formatter->format(value) goes through a null pointer, after which the
\* program ends or the call returns some text
context_to_string_outcomes(m, value, b) ==
    LET it == map_find(m, value.ty)
    IN  IF it # {} /\ (CHOOSE e \in it : TRUE)[2] = NullFormatter
        THEN {[returns |-> FALSE, text |-> <<>>]}
             \cup {[returns |-> TRUE, text |-> t] : t \in {<<>>, to_string(value, b)}}
        ELSE {[returns |-> TRUE, text |-> context_to_string(m, value, b)]}

\* the values the model passes to a format_context
ContextValues ==
    {Text(T_string, bytes_a),
     Num(T_llong, -3),
     Num(T_long, -3),
     Num(T_bool, 1),
     Elems(Vector(T_string), <<Text(T_string, bytes_a)>>),
     Elems(Vector(T_llong), <<Num(T_llong, 0), Num(T_llong, -3)>>),
     Struct(Pair(T_bool, T_llong), <<Num(T_bool, 1), Num(T_llong, -3)>>),
     Struct(Tuple(<<T_long, T_string>>), <<Num(T_long, 5), Text(T_string, bytes_a)>>),
     Elems(Array(T_string, 1), <<Text(T_string, bytes_quote)>>)}

\* the programs with format_context objects: the default build, without and
\* with the to_string_impl specializations
Init_format_context ==
    /\ Init
    /\ cplusplus = 201103
    /\ flagged = {}

\* format_context c;
Construct(c) ==
    /\ op = "none"
    /\ ~contexts[c].alive
    /\ op' = "format_context"
    /\ ctx' = c
    /\ contexts' = [contexts EXCEPT ![c] = [alive |-> TRUE, formatters_ |-> {}]]
    /\ last_touch' = [last_touch EXCEPT ![c] = Untouched]
    /\ before' = contexts
    /\ UNCHANGED <<cplusplus, specialized, flagged, arg, range_type, range_items,
                   strategy, result, quote, type_arg, found>>

\* the object c goes out of scope
Destroy(c) ==
    /\ op = "none"
    /\ contexts[c].alive
    /\ op' = "~format_context"
    /\ ctx' = c
    /\ contexts' = [contexts EXCEPT ![c] = NoContext]
    /\ last_touch' = [last_touch EXCEPT ![c] = Untouched]
    /\ before' = contexts
    /\ UNCHANGED <<cplusplus, specialized, flagged, arg, range_type, range_items,
                   strategy, result, quote, type_arg, found>>

\* c.set_formatter<T>(formatter), by either overload
Call_set_formatter(c, T, f) ==
    /\ op = "none"
    /\ contexts[c].alive
    /\ op' = "set_formatter"
    /\ ctx' = c
    /\ type_arg' = T
    /\ contexts' = with_formatters_(contexts, c,
                                    map_assign(contexts[c].formatters_, T, f))
    /\ last_touch' = [last_touch EXCEPT ![c][T] =
                          [call |-> "set_formatter", formatter |-> f]]
    /\ before' = contexts
    /\ UNCHANGED <<cplusplus, specialized, flagged, arg, range_type, range_items,
                   strategy, result, quote, found>>

\* c.remove_formatter<T>()
Call_remove_formatter(c, T) ==
    /\ op = "none"
    /\ contexts[c].alive
    /\ op' = "remove_formatter"
    /\ ctx' = c
    /\ type_arg' = T
    /\ contexts' = with_formatters_(contexts, c,
                                    map_erase(contexts[c].formatters_, T))
    /\ last_touch' = [last_touch EXCEPT ![c][T] =
                          [call |-> "remove_formatter", formatter |-> 0]]
    /\ before' = contexts
    /\ UNCHANGED <<cplusplus, specialized, flagged, arg, range_type, range_items,
                   strategy, result, quote, found>>

\* c.clear()
Call_clear(c) ==
    /\ op = "none"
    /\ contexts[c].alive
    /\ op' = "clear"
    /\ ctx' = c
    /\ contexts' = with_formatters_(contexts, c, {})
    /\ last_touch' = [last_touch EXCEPT ![c] =
                          [t \in FormatterTypes |-> [call |-> "clear", formatter |-> 0]]]
    /\ before' = contexts
    /\ UNCHANGED <<cplusplus, specialized, flagged, arg, range_type, range_items,
                   strategy, result, quote, type_arg, found>>

\* bool r = c.has_formatter<T>()
Call_has_formatter(c, T) ==
    /\ op = "none"
    /\ contexts[c].alive
    /\ op' = "has_formatter"
    /\ ctx' = c
    /\ type_arg' = T
    /\ found' = has_formatter(contexts[c].formatters_, T)
    /\ before' = contexts
    /\ UNCHANGED <<cplusplus, specialized, flagged, arg, range_type, range_items,
                   strategy, result, quote, contexts, last_touch>>

\* std::string r = c.to_string(value)
Call_context_to_string(c, value) ==
    /\ op = "none"
    /\ contexts[c].alive
    /\ ctx' = c
    /\ arg' = value
    /\ type_arg' = value.ty
    /\ \E o \in context_to_string_outcomes(contexts[c].formatters_, value, build) :
          /\ op' = (IF o.returns THEN "context_to_string" ELSE "terminated")
          /\ result' = o.text
    /\ before' = contexts
    /\ UNCHANGED <<cplusplus, specialized, flagged, range_type, range_items,
                   strategy, quote, contexts, last_touch, found>>

Next_format_context ==
    \/ \E c \in ContextIds : Construct(c)
    \/ \E c \in ContextIds : Destroy(c)
    \/ \E c \in ContextIds, T \in FormatterTypes, f \in FormatterIds :
          Call_set_formatter(c, T, f)
    \/ \E c \in ContextIds, T \in FormatterTypes : Call_remove_formatter(c, T)
    \/ \E c \in ContextIds : Call_clear(c)
    \/ \E c \in ContextIds, T \in FormatterTypes \cup {T_long} :
          Call_has_formatter(c, T)
    \/ \E c \in ContextIds, value \in ContextValues :
          Call_context_to_string(c, value)
    \/ \E value \in ContextValues : Call_to_string(value)
    \/ Return

SpecFormatContext == Init_format_context /\ [][Next_format_context]_vars

\* the programs that also pass an empty pointer to the set_formatter overload
\* that takes a std::shared_ptr<formatter_base<T>>, on one format_context
Next_null_formatter ==
    \/ Construct(1)
    \/ Destroy(1)
    \/ \E T \in FormatterTypes, f \in FormatterIds \cup {NullFormatter} :
          Call_set_formatter(1, T, f)
    \/ \E T \in FormatterTypes : Call_remove_formatter(1, T)
    \/ Call_clear(1)
    \/ \E T \in FormatterTypes : Call_has_formatter(1, T)
    \/ \E value \in ContextValues : Call_context_to_string(1, value)
    \/ Return

SpecNullFormatter == Init_format_context /\ [][Next_null_formatter]_vars

----------------------------------------------------------------------------
(* Definitions the properties share *)

\* the texts xs[1], ..., xs[n] with sep between neighbours
RECURSIVE JoinWith(_, _)
JoinWith(xs, sep) ==
    IF xs = <<>> THEN <<>>
    ELSE IF Len(xs) = 1 THEN xs[1]
    ELSE xs[1] \o sep \o JoinWith(Tail(xs), sep)

\* the primitive-literal types: the parameter types of the non-template
\* overloads, and what decays to them
PrimitiveLiteral(t) ==
    \/ t.k \in {"bool", "char", "signed char", "unsigned char", "std::string",
                "const char*", "char*", "std::nullptr_t"}
    \/ t.k = "std::string_view" /\ cplusplus >= 201703
    \/ t.k = "array" /\ t.args[1].k = "char"

\* a fixed-size array whose elements are not of a char type
FixedArray(t) == t.k = "array" /\ t.args[1].k \notin CharKinds

\* the decimal text of an integer
DecimalText(n) == IF n < 0 THEN TXT.minus \o Digits(-n, 10) ELSE Digits(n, 10)

\* the text of the C string that starts the memory mem
RECURSIVE TextAt(_)
TextAt(mem) ==
    IF Head(mem) = 0 THEN <<>> ELSE <<Head(mem)>> \o TextAt(Tail(mem))

\* the quotable text types; an array of char decays to char*
QuotableText(t) ==
    \/ t.k \in {"std::string", "const char*", "char*"}
    \/ t.k = "std::string_view" /\ cplusplus >= 201703
    \/ t.k = "array" /\ t.args[1].k = "char"

\* a text between double quotes, by the quoting codec with escape \ and
\* byte-wise scanning
DoubleQuoted(text) == quoted_str(text, 34, 34, 92, FALSE)

\* no byte of the text is escaped and no byte order mark is dropped
PlainText(text) ==
    /\ \A i \in 1..Len(text) : text[i] \notin {34, 92}
    /\ ~(Len(text) >= 3 /\ SubSeq(text, 1, 3) = <<239, 187, 191>>)

\* an element of a structural formatter: rendered recursively, and quoted if
\* and only if its type is quotable text
Rendered(x) ==
    IF QuotableText(x.ty) THEN DoubleQuoted(to_string(x, build))
    ELSE to_string(x, build)

\* the type is used with an explicit specialization of to_string_impl
Customized(t) == t \in specialized

\* the strategy the last call used, in the terms of the priority list
UsedStrategy ==
    IF strategy \in Templates /\ Customized(arg.ty) THEN "custom"
    ELSE IF strategy \in NonTemplates(cplusplus) THEN "primitive"
    ELSE strategy

----------------------------------------------------------------------------
(* C1: for every type exactly one conversion strategy is selected: the     *)
(* conditions of the template overloads and the exact matches of the       *)
(* non-template overloads are pairwise exclusive and jointly exhaustive,   *)
(* and the fallback [<type name> at <address>] is selected exactly when    *)
(* no other strategy applies.                                              *)

C1_ExactMatches(t) ==
    enabled_templates(t, cplusplus)
    \cup {p \in NonTemplates(cplusplus) : conversion_rank(t, p) = 0}

C1_NoOtherStrategy(t) ==
    /\ ~has_to_string(t) /\ ~PrimitiveLiteral(t) /\ ~is_numeric(t)
    /\ ~is_enum(t) /\ ~is_pair(t) /\ ~is_tuple(t) /\ ~FixedArray(t)
    /\ ~has_cbegin_cend(t) /\ ~is_streamable(t, cplusplus)

C1_ExactlyOneStrategy ==
    op = "to_string" =>
        /\ Cardinality(enabled_templates(arg.ty, cplusplus)) <= 1
        /\ Cardinality(C1_ExactMatches(arg.ty)) = 1
        /\ strategy \in C1_ExactMatches(arg.ty)
        /\ (strategy = "fallback") = C1_NoOtherStrategy(arg.ty)
        /\ strategy = "fallback" =>
              result = TXT.lbrk \o type_name(arg.ty) \o TXT.at
                       \o stream_pointer(arg.addr) \o TXT.rbrk

C1_Witness ==
    /\ op = "to_string"
    /\ strategy = "fallback"
    /\ arg.ty = C_plain
    /\ Len(result) > 6

----------------------------------------------------------------------------
(* C2: when a type satisfies several capability predicates the first in    *)
(* the order custom override, to_string() method (non-primitive types),    *)
(* primitive literal, numeric, enum, pair, tuple, fixed array, cbegin/cend *)
(* container, stream insertion, fallback is used.  A class with            *)
(* to_string() renders as value.to_string() also when it is streamable or  *)
(* has cbegin/cend; a streamable container renders as a container.         *)

C2_FirstMatch(t) ==
    IF Customized(t) THEN "custom"
    ELSE IF has_to_string(t) /\ ~PrimitiveLiteral(t) THEN "method"
    ELSE IF PrimitiveLiteral(t) THEN "primitive"
    ELSE IF is_numeric(t) THEN "numeric"
    ELSE IF is_enum(t) THEN "enum"
    ELSE IF is_pair(t) THEN "pair"
    ELSE IF is_tuple(t) THEN "tuple"
    ELSE IF FixedArray(t) THEN "c_array"
    ELSE IF has_cbegin_cend(t) THEN "container"
    ELSE IF is_streamable(t, cplusplus) THEN "streamable"
    ELSE "fallback"

C2_PriorityOrder ==
    op = "to_string" =>
        /\ UsedStrategy = C2_FirstMatch(arg.ty)
        /\ (has_to_string(arg.ty) /\ ~Customized(arg.ty)) => result = arg.ts
        /\ (/\ arg.ty.k = "class" /\ ~has_to_string(arg.ty)
            /\ has_cbegin_cend(arg.ty) /\ is_streamable(arg.ty, cplusplus))
           => /\ result = to_string_range(arg.ty.args[1], arg.el, build)
              /\ result # arg.os

C2_Witness ==
    /\ op = "to_string"
    /\ arg.ty = ClassOf({"to_string", "ostream", "cbegin_cend"})
    /\ result = arg.ts
    /\ result # arg.os

----------------------------------------------------------------------------
(* C3: a type flagged has_custom_specialization with a registered          *)
(* to_string_impl specialization renders through the specialization,       *)
(* before the to_string() method and every generic strategy (long long     *)
(* with the LL override: the decimal digits and LL, also for zero and      *)
(* negative values); types without flag and specialization (long,          *)
(* std::vector<int>) keep their default rendering.                         *)

----------------------------------------------------------------------------
(* C4: a primitive-literal value has the fixed rendering: a std::string is *)
(* returned unchanged (not quoted, not escaped, not a container of chars); *)
(* bool gives true or false; char, signed char and unsigned char give a    *)
(* one-character string; a const char* gives its text, or null when the    *)
(* pointer is null; nullptr gives null.                                    *)

C4_PrimitiveRendering ==
    op = "to_string" =>
        /\ arg.ty = T_string => result = arg.s
        /\ arg.ty = T_bool => result = (IF arg.n = 1 THEN TXT.true ELSE TXT.false)
        /\ arg.ty \in {T_char, T_schar, T_uchar}
           => Len(result) = 1 /\ result[1] = arg.n % 256
        /\ (arg.ty = T_cstr /\ ~arg.null) => result = TextAt(arg.s)
        /\ (arg.ty = T_cstr /\ arg.null) => result = TXT.null
        /\ arg.ty = T_nullptr => result = TXT.null

C4_Witness ==
    /\ op = "to_string"
    /\ arg.ty = T_cstr
    /\ arg.null
    /\ result = <<110, 117, 108, 108>>

----------------------------------------------------------------------------
(* C5: every character type that is_numeric excludes (char, signed char,   *)
(* unsigned char, wchar_t, char16_t, char32_t) is rendered by the          *)
(* primitive-literal strategy as a single character, never as digits and   *)
(* never through stream insertion or the fallback.                         *)

C5_CharacterFamilySingleCharacter ==
    (op = "to_string" /\ arg.ty.k \in CharKinds \cup WideCharKinds) =>
        /\ strategy \in NonTemplates(cplusplus)
        /\ strategy \notin {"streamable", "fallback"}
        /\ Len(result) = 1

----------------------------------------------------------------------------
(* C6: for every enum type without a custom specialization (scoped or not, *)
(* any underlying type, any enumerator value) the result is the decimal    *)
(* text of the underlying integer value, never a character; also for enums *)
(* that are container elements, map keys, pair members or tuple elements.  *)

C6_Piece(m) ==
    IF is_enum(m.ty) THEN DecimalText(m.n) ELSE apply_quotation_if_needed(m, build)

C6_HasEnum(xs) == \E i \in 1..Len(xs) : is_enum(xs[i].ty)

C6_EnumUnderlyingValue ==
    op = "to_string" =>
        /\ is_enum(arg.ty) => result = DecimalText(arg.n)
        /\ (is_pair(arg.ty) /\ C6_HasEnum(arg.mem))
           => result = TXT.lpar \o C6_Piece(arg.mem[1]) \o TXT.comma
                       \o C6_Piece(arg.mem[2]) \o TXT.rpar
        /\ (is_tuple(arg.ty) /\ C6_HasEnum(arg.mem))
           => result = TXT.lpar
                       \o JoinWith([i \in 1..Len(arg.mem) |-> C6_Piece(arg.mem[i])],
                                   TXT.comma)
                       \o TXT.rpar
        /\ (arg.ty.k \in {"std::vector", "array"} /\ is_enum(arg.ty.args[1]))
           => result = TXT.lbrk
                       \o JoinWith([i \in 1..Len(arg.el) |-> DecimalText(arg.el[i].n)],
                                   TXT.comma)
                       \o TXT.rbrk
        /\ (arg.ty.k = "std::map" /\ is_enum(arg.ty.args[1].args[1]))
           => result = TXT.lbrc
                       \o JoinWith([i \in 1..Len(arg.el) |->
                                      DecimalText(arg.el[i].mem[1].n) \o TXT.colon
                                      \o C6_Piece(arg.el[i].mem[2])],
                                   TXT.comma)
                       \o TXT.rbrc

C6_Witness ==
    /\ op = "to_string"
    /\ arg.ty = Vector(E_status)
    /\ Len(arg.el) >= 1
    /\ arg.el[1].n = 200
    /\ SubSeq(result, 1, 4) = <<91, 50, 48, 48>>

----------------------------------------------------------------------------
(* C7: a std::pair renders as ( R(first) , R(second) ) with the separator   *)
(* ", ", where R(x) is the recursive rendering of x, in double quotes if    *)
(* and only if the type of x is quotable text; first precedes second;       *)
(* nested pairs and containers are rendered recursively.                    *)

C7_QuotedIffQuotable(x) ==
    /\ QuotableText(x.ty)
       => /\ Head(Rendered(x)) = 34
          /\ Rendered(x)[Len(Rendered(x))] = 34
          /\ PlainText(to_string(x, build))
             => Rendered(x) = <<34>> \o to_string(x, build) \o <<34>>
    /\ ~QuotableText(x.ty) => Rendered(x) = to_string(x, build)

----------------------------------------------------------------------------
(* C8: a std::tuple with N elements renders as ( , the N rendered elements *)
(* in index order with exactly N-1 separators ", " between them, and ) ;   *)
(* the empty tuple gives () and a tuple of one element (e0); an element is *)
(* rendered recursively and quoted if and only if its type is quotable.    *)

RECURSIVE C8_TotalLen(_)
C8_TotalLen(xs) == IF xs = <<>> THEN 0 ELSE Len(Head(xs)) + C8_TotalLen(Tail(xs))

C8_Elements == [i \in 1..Len(arg.mem) |-> Rendered(arg.mem[i])]

----------------------------------------------------------------------------
(* C9: a fixed-size array whose element type is not char, signed char or   *)
(* unsigned char renders as [ , the elements in index order separated by   *)
(* ", ", and ] , each element rendered recursively and quoted if and only  *)
(* if its type is quotable text; an array of char renders as the C string  *)
(* it holds, not as a bracketed list.                                      *)

C9_ArrayFormat ==
    op = "to_string" =>
        /\ FixedArray(arg.ty)
           => /\ Len(arg.el) = arg.ty.n
              /\ result = TXT.lbrk
                          \o JoinWith([i \in 1..Len(arg.el) |-> Rendered(arg.el[i])],
                                      TXT.comma)
                          \o TXT.rbrk
              /\ \A i \in 1..Len(arg.el) : C7_QuotedIffQuotable(arg.el[i])
        /\ (arg.ty.k = "array" /\ arg.ty.args[1] = T_char)
           => result = TextAt(arg.s)

\* ["a", "a\"b"]
C9_Witness ==
    /\ op = "to_string"
    /\ arg.ty = Array(T_string, 2)
    /\ result = <<91, 34, 97, 34, 44, 32, 34, 97, 92, 34, 98, 34, 93>>

----------------------------------------------------------------------------
(* C10: to_string(begin, end) chooses its shape from the static element    *)
(* type only: { k: v items } if the element type is pair-like, [ items ]   *)
(* otherwise; items in iteration order separated by exactly ", "; an empty *)
(* range gives {} for a pair-like element type and [] otherwise.           *)
(* to_string(container) equals to_string(c.cbegin(), c.cend()).            *)

C10_Item(x) ==
    IF has_first_second(range_type)
    THEN Rendered(x.mem[1]) \o TXT.colon \o Rendered(x.mem[2])
    ELSE Rendered(x)

C10_RangeShape ==
    op = "to_string_range" =>
        /\ result =
              (IF has_first_second(range_type) THEN TXT.lbrc ELSE TXT.lbrk)
              \o JoinWith([i \in 1..Len(range_items) |-> C10_Item(range_items[i])],
                          TXT.comma)
              \o (IF has_first_second(range_type) THEN TXT.rbrc ELSE TXT.rbrk)
        /\ range_items = <<>>
           => result = (IF has_first_second(range_type)
                        THEN <<123, 125>> ELSE <<91, 93>>)

\* the range [c.cbegin(), c.cend()) of a value with cbegin/cend: the element
\* type and the elements; a string iterates over its chars
C10_ElementType(c) ==
    IF c.ty.k \in {"std::string", "std::string_view"} THEN T_char
    ELSE c.ty.args[1]

C10_Elements(c) ==
    IF c.ty.k \in {"std::string", "std::string_view"}
    THEN [i \in 1..Len(c.s) |-> Num(T_char, c.s[i])]
    ELSE c.el

C10_SameAsRange ==
    result = to_string_range(C10_ElementType(arg), C10_Elements(arg), build)

\* C10 as stated: for every type with cbegin/cend
C10_ContainerEqualsRange ==
    /\ C10_RangeShape
    /\ (op = "to_string" /\ has_cbegin_cend(arg.ty)) => C10_SameAsRange

\* C10 as amended: for a type with cbegin/cend that is not std::string or
\* std::string_view, has no to_string() method and no to_string_impl
\* specialization
C10_ContainerStrategyEqualsRange ==
    /\ C10_RangeShape
    /\ (/\ op = "to_string"
        /\ has_cbegin_cend(arg.ty)
        /\ arg.ty.k \notin {"std::string", "std::string_view"}
        /\ ~has_to_string(arg.ty)
        /\ ~Customized(arg.ty))
       => C10_SameAsRange

C10_Witness ==
    /\ op = "to_string_range"
    /\ has_first_second(range_type)
    /\ range_items = <<>>
    /\ result = <<123, 125>>

----------------------------------------------------------------------------
(* C11: an element nested in a structural formatter (pair member, tuple    *)
(* element, array element, range element, map key, map value) is in double *)
(* quotes if and only if its static type is quotable text (std::string,    *)
(* const char*, char*, string_view); the decision does not depend on the   *)
(* role as key or value; numeric, bool, char, enum and nested structural   *)
(* elements are never quoted.                                              *)

\* the elements the formatter of the value x writes
C11_Nested(x) ==
    IF is_pair(x.ty) \/ is_tuple(x.ty) THEN x.mem
    ELSE IF x.ty.k \in {"array", "std::vector", "std::list", "class"} THEN x.el
    ELSE <<>>

C11_KeyValue(kv) == Rendered(kv.mem[1]) \o TXT.colon \o Rendered(kv.mem[2])

----------------------------------------------------------------------------
(* Definitions the properties of quoted_str share *)

StartsWithBom(s) == Len(s) >= 3 /\ SubSeq(s, 1, 3) = BOM

\* the text after its first three bytes
AfterBom(s) == SubSeq(s, 4, Len(s))

\* the bytes between the first and the last byte of the result
Body(r) == SubSeq(r, 2, Len(r) - 1)

----------------------------------------------------------------------------
(* C12: with is_utf8 = false and no leading BOM the result is the start    *)
(* delimiter, the body and the end delimiter, also for the empty text.     *)
(* With a non-zero escape the body is the text with exactly one escape     *)
(* byte before every byte equal to start, end or escape and every other    *)
(* byte unchanged (length = len(s) + 2 + number of such bytes); with the   *)
(* zero escape the body is the text verbatim.                              *)

C12_Escaped == {i \in 1..Len(quote.s) :
                   quote.s[i] \in {quote.start_delim, quote.end_delim, quote.escape}}

\* the number of escape bytes written up to the i-th byte of the text
C12_EscapesUpTo(i) == Cardinality({j \in C12_Escaped : j <= i})

C12_ByteWiseEscaping ==
    (op = "quoted_str" /\ ~quote.is_utf8 /\ ~StartsWithBom(quote.s)) =>
        /\ result[1] = quote.start_delim
        /\ result[Len(result)] = quote.end_delim
        /\ quote.s = <<>> => result = <<quote.start_delim, quote.end_delim>>
        /\ quote.escape # 0 =>
              /\ Len(result) = Len(quote.s) + 2 + Cardinality(C12_Escaped)
              /\ \A i \in 1..Len(quote.s) :
                    /\ result[1 + i + C12_EscapesUpTo(i)] = quote.s[i]
                    /\ i \in C12_Escaped
                       => result[i + C12_EscapesUpTo(i)] = quote.escape
        /\ quote.escape = 0 =>
              result = <<quote.start_delim>> \o quote.s \o <<quote.end_delim>>

\* quoted_str("\"\\a", '"', '"', '\\', false) = "\"\\\\a" in quotes
C12_Witness ==
    /\ op = "quoted_str"
    /\ ~quote.is_utf8
    /\ quote.s = <<34, 92, 97>>
    /\ quote.escape = 92
    /\ result = <<34, 92, 34, 92, 92, 97, 34>>

----------------------------------------------------------------------------
(* C13: with is_utf8 = true and a non-zero escape every multi-byte         *)
(* sequence (a lead byte >= 0x80 and the following bytes its bit pattern   *)
(* announces) is copied unchanged, with no escape byte before or inside    *)
(* it, also when one of its bytes equals start, end or escape; the bytes   *)
(* below 0x80 outside the sequences are escaped as in the byte-wise mode.  *)

C13_Announced(c) ==
    IF c \in 192..223 THEN 1
    ELSE IF c \in 224..239 THEN 2
    ELSE IF c \in 240..247 THEN 3
    ELSE 0

\* the text cut into its units: the multi-byte sequences (the last one as
\* far as the text goes) and the single bytes below 0x80
RECURSIVE C13_Units(_)
C13_Units(s) ==
    IF s = <<>> THEN <<>>
    ELSE LET want == IF s[1] >= 128 THEN 1 + C13_Announced(s[1]) ELSE 1
             n == IF want < Len(s) THEN want ELSE Len(s)
         IN  <<SubSeq(s, 1, n)>> \o C13_Units(SubSeq(s, n + 1, Len(s)))

C13_Unit(u) ==
    IF u[1] >= 128 THEN u
    ELSE IF u[1] \in {quote.start_delim, quote.end_delim, quote.escape}
         THEN <<quote.escape>> \o u
         ELSE u

C13_Text == IF StartsWithBom(quote.s) THEN AfterBom(quote.s) ELSE quote.s

----------------------------------------------------------------------------
(* C14: a byte order mark (EF BB BF) at the start of the input is dropped  *)
(* before quoting in every mode.                                           *)

\* the text r occurs in the text s
Occurs(r, s) ==
    \E i \in 1..(Len(s) - Len(r) + 1) : SubSeq(s, i, i + Len(r) - 1) = r

\* the quoting of the text s as the continuation of a text: of x followed by
\* s, without the x
C14_Continued(s) ==
    LET r == quoted_str(<<120>> \o s, quote.start_delim, quote.end_delim,
                        quote.escape, quote.is_utf8)
    IN  <<r[1]>> \o SubSeq(r, 3, Len(r))

\* C14 as stated: quoted_str(BOM + s) equals quoted_str(s), and the mark
\* never appears in the output
C14_BomNeverInOutput ==
    (op = "quoted_str" /\ StartsWithBom(quote.s)) =>
        /\ result = quoted_str(AfterBom(quote.s), quote.start_delim,
                               quote.end_delim, quote.escape, quote.is_utf8)
        /\ ~Occurs(BOM, result)

\* C14 as amended: exactly the first mark is dropped; quoted_str(BOM + s)
\* is the quoting of s with no further mark dropped, which is quoted_str(s)
\* when s does not begin with a mark itself
C14_LeadingBomDropped ==
    (op = "quoted_str" /\ StartsWithBom(quote.s)) =>
        /\ result = C14_Continued(AfterBom(quote.s))
        /\ ~StartsWithBom(AfterBom(quote.s))
           => result = quoted_str(AfterBom(quote.s), quote.start_delim,
                                  quote.end_delim, quote.escape, quote.is_utf8)

C14_Witness ==
    /\ op = "quoted_str"
    /\ quote.s = BOM \o <<97, 34>>
    /\ quote.escape = 0
    /\ result = <<34, 97, 34, 34>>

----------------------------------------------------------------------------
(* C15: for a text without NUL, any delimiters and a non-zero escape, in   *)
(* either mode, the result begins with the start delimiter, ends with the  *)
(* end delimiter, and no delimiter between them is unescaped.              *)

\* the delimiters of the body that no escape byte escapes, reading the body
\* from the left
RECURSIVE C15_Unescaped(_)
C15_Unescaped(body) ==
    IF body = <<>> THEN 0
    ELSE IF body[1] = quote.escape /\ Len(body) >= 2
         THEN C15_Unescaped(SubSeq(body, 3, Len(body)))
    ELSE IF body[1] \in {quote.start_delim, quote.end_delim}
         THEN 1 + C15_Unescaped(Tail(body))
    ELSE C15_Unescaped(Tail(body))

C15_NoUnescapedDelimiter ==
    (/\ op = "quoted_str"
     /\ \A i \in 1..Len(quote.s) : quote.s[i] # 0
     /\ quote.escape # 0) =>
        /\ result[1] = quote.start_delim
        /\ result[Len(result)] = quote.end_delim
        /\ C15_Unescaped(Body(result)) = 0

----------------------------------------------------------------------------
(* format_context properties *)

\* the most recent call that touched the entry of T in the object c was
\* set_formatter<T>
Registered(c, T) ==
    /\ T \in FormatterTypes
    /\ last_touch[c][T].call = "set_formatter"

\* the entries an object holds for the type
EntriesOf(c, T) == {e \in contexts[c].formatters_ : e[1] = T}

\* long long as the global engine writes it in the program
GlobalLongLong(n) ==
    DecimalText(n) \o (IF Customized(T_llong) THEN TXT.LL ELSE <<>>)

\* the text the global engine gives for a value passed to a format_context
GlobalText(v) ==
    CASE v.ty = T_string -> v.s
      [] v.ty = T_llong -> GlobalLongLong(v.n)
      [] v.ty = T_long -> DecimalText(v.n)
      [] v.ty = T_bool -> (IF v.n # 0 THEN TXT.true ELSE TXT.false)
      [] v.ty = Vector(T_string) ->
            TXT.lbrk
            \o JoinWith([i \in 1..Len(v.el) |-> DoubleQuoted(v.el[i].s)], TXT.comma)
            \o TXT.rbrk
      [] v.ty = Vector(T_llong) ->
            TXT.lbrk
            \o JoinWith([i \in 1..Len(v.el) |-> GlobalLongLong(v.el[i].n)], TXT.comma)
            \o TXT.rbrk
      [] v.ty = Pair(T_bool, T_llong) ->
            TXT.lpar \o (IF v.mem[1].n # 0 THEN TXT.true ELSE TXT.false)
            \o TXT.comma \o GlobalLongLong(v.mem[2].n) \o TXT.rpar
      [] v.ty = Tuple(<<T_long, T_string>>) ->
            TXT.lpar \o DecimalText(v.mem[1].n)
            \o TXT.comma \o DoubleQuoted(v.mem[2].s) \o TXT.rpar
      [] v.ty = Array(T_string, 1) ->
            TXT.lbrk
            \o JoinWith([i \in 1..Len(v.el) |-> DoubleQuoted(v.el[i].s)], TXT.comma)
            \o TXT.rbrk

\* C16: a format_context holds at most one formatter per type and none when
\* constructed, and has_formatter<T>() is true exactly when the most recent
\* call that touched the entry of T was set_formatter<T>
C16_OneFormatterPerType ==
    /\ \A c \in ContextIds :
          /\ \A T \in FormatterTypes : Cardinality(EntriesOf(c, T)) <= 1
          /\ \A e \in contexts[c].formatters_ : Registered(c, e[1])
          /\ \A T \in FormatterTypes : Registered(c, T) => EntriesOf(c, T) # {}
    /\ op = "format_context" => contexts[ctx].formatters_ = {}
    /\ op = "has_formatter" => (found <=> Registered(ctx, type_arg))

\* has_formatter<std::string>() is true after a clear() and a later
\* set_formatter<std::string>
C16_Witness ==
    /\ op = "has_formatter"
    /\ type_arg = T_string
    /\ found
    /\ last_touch[ctx][T_llong].call = "clear"

\* C17: remove_formatter<T>() on an absent entry leaves the registry as it is,
\* a second remove_formatter<T>() changes nothing, it removes no other entry;
\* clear() leaves no formatter and changes nothing in an empty context, and
\* after clear() the context renders every value as the global engine does
C17_RemoveAndClear ==
    /\ op = "remove_formatter" =>
          LET m == before[ctx].formatters_
              n == contexts[ctx].formatters_
          IN  /\ {e \in m : e[1] = type_arg} = {} => contexts = before
              /\ n = {e \in m : e[1] # type_arg}
              /\ map_erase(n, type_arg) = n
    /\ op = "clear" =>
          /\ contexts[ctx].formatters_ = {}
          /\ before[ctx].formatters_ = {} => contexts = before
    /\ (/\ op = "context_to_string"
        /\ \A T \in FormatterTypes : last_touch[ctx][T].call = "clear")
       => result = GlobalText(arg)

\* remove_formatter<T>() was called on a context that holds a formatter of
\* another type and none of T
C17_Witness ==
    /\ op = "remove_formatter"
    /\ {e \in before[ctx].formatters_ : e[1] = type_arg} = {}
    /\ before[ctx].formatters_ # {}
    /\ contexts = before

\* C18: format_context::to_string(v) returns the text of the formatter most
\* recently registered for the type of v, as the formatter gave it, and
\* the text of ustr::to_string(v) when none is registered
C18_FormatterOrGlobal ==
    op = "context_to_string" =>
        IF Registered(ctx, arg.ty)
        THEN result = format(last_touch[ctx][arg.ty].formatter, arg)
        ELSE result = to_string(arg, build)

\* the lambda registered for std::string formats a std::string, and the text
\* has no quotation marks
C18_Witness ==
    /\ op = "context_to_string"
    /\ arg.ty = T_string
    /\ Registered(ctx, T_string)
    /\ last_touch[ctx][T_string].formatter = 2
    /\ result = <<35, 50>> \o arg.s

\* C19: when a format_context renders a pair, tuple, array or container, the
\* elements are rendered by the global engine, explicit specializations
\* included, whatever formatters the context holds for their types
C19_ElementsUseGlobalEngine ==
    (/\ op = "context_to_string"
     /\ arg.ty.k \in {"std::pair", "std::tuple", "array", "std::vector"})
    => result = GlobalText(arg)

\* a vector of long long is rendered by a context that holds a formatter for
\* long long, in a program that specializes to_string_impl for long long
C19_Witness ==
    /\ op = "context_to_string"
    /\ arg.ty = Vector(T_llong)
    /\ Registered(ctx, T_llong)
    /\ EntriesOf(ctx, T_llong) # {}
    /\ Customized(T_llong)
    /\ result = <<91, 48, 76, 76, 44, 32, 45, 51, 76, 76, 93>>

\* the calls on a format_context
ContextCalls ==
    {"format_context", "~format_context", "set_formatter", "remove_formatter",
     "clear", "has_formatter", "context_to_string"}

\* C20: a call on one format_context leaves every other object, and so its
\* has_formatter and to_string results, as they were, and ustr::to_string
\* gives the text of the global engine whatever the contexts hold or held
C20_InstancesIndependent ==
    /\ op \in ContextCalls =>
          \A d \in ContextIds \ {ctx} :
              /\ contexts[d] = before[d]
              /\ \A T \in FormatterTypes \cup {T_int} :
                    has_formatter(contexts[d].formatters_, T)
                    = has_formatter(before[d].formatters_, T)
              /\ \A v \in {Text(T_string, bytes_a), Num(T_llong, -3)} :
                    context_to_string(contexts[d].formatters_, v, build)
                    = context_to_string(before[d].formatters_, v, build)
    /\ op = "to_string" => result = GlobalText(arg)

\* set_formatter<T> registers the lambda in one context while the other
\* context holds the formatter object for the same type
C20_Witness ==
    /\ op = "set_formatter"
    /\ \E d \in ContextIds \ {ctx} :
          /\ contexts[d].alive
          /\ <<type_arg, 1>> \in contexts[d].formatters_
    /\ <<type_arg, 2>> \in contexts[ctx].formatters_

----------------------------------------------------------------------------
(* Determinism *)

\* the value without the addresses of the objects in it
RECURSIVE WithoutAddress(_)
WithoutAddress(v) ==
    [v EXCEPT !.addr = 0,
              !.mem = [i \in 1..Len(v.mem) |-> WithoutAddress(v.mem[i])],
              !.el = [i \in 1..Len(v.el) |-> WithoutAddress(v.el[i])]]

\* v == w in the program: the same type and payload, at any address
EqualValues(v, w) == WithoutAddress(v) = WithoutAddress(w)

\* the rendering of the value writes the fallback text of an object in it
RECURSIVE Opaque(_)
Opaque(v) ==
    \/ overload(v.ty, cplusplus) = "fallback" /\ ~Customized(v.ty)
    \/ \E i \in 1..Len(v.mem) : Opaque(v.mem[i])
    \/ \E i \in 1..Len(v.el) : Opaque(v.el[i])

----------------------------------------------------------------------------
(* Nested text *)

\* the text with a backslash before every double quote and backslash
RECURSIVE BackslashEscaped(_)
BackslashEscaped(text) ==
    IF text = <<>> THEN <<>>
    ELSE (IF Head(text) \in {34, 92} THEN <<92>> ELSE <<>>)
         \o <<Head(text)>> \o BackslashEscaped(Tail(text))

\* the position of the first double quote of the text that no backslash
\* escapes, reading from position i; 0 when there is none
RECURSIVE ClosingQuote(_, _)
ClosingQuote(text, i) ==
    IF i > Len(text) THEN 0
    ELSE IF text[i] = 92 THEN ClosingQuote(text, i + 2)
    ELSE IF text[i] = 34 THEN i
    ELSE ClosingQuote(text, i + 1)

\* an element as a structural formatter has to write it
NestedElement(x) ==
    IF QuotableText(x.ty)
    THEN <<34>> \o BackslashEscaped(to_string(x, build)) \o <<34>>
    ELSE to_string(x, build)

\* the elements of a range, and the two members of each pair-like element
\* as key: value
NestedItems(value_type, items) ==
    [i \in 1..Len(items) |->
        IF has_first_second(value_type)
        THEN NestedElement(items[i].mem[1]) \o TXT.colon
             \o NestedElement(items[i].mem[2])
        ELSE NestedElement(items[i])]

\* the text of a range: braces around pair-like elements, brackets otherwise
NestedRange(value_type, items) ==
    LET pair_like == has_first_second(value_type)
    IN  (IF pair_like THEN TXT.lbrc ELSE TXT.lbrk)
        \o JoinWith(NestedItems(value_type, items), TXT.comma)
        \o (IF pair_like THEN TXT.rbrc ELSE TXT.rbrk)

----------------------------------------------------------------------------
(* The entry of a type *)

\* C23: set_formatter<T> and remove_formatter<T> leave has_formatter<U>() and
\* the context's to_string of U values as they were for every other type U,
\* and the context never formats a value with a formatter registered for
\* another type than the value's
C23_OnlyEntryOfT ==
    /\ op \in {"set_formatter", "remove_formatter"} =>
          \A U \in (FormatterTypes \cup {T_long, T_bool}) \ {type_arg} :
              /\ has_formatter(contexts[ctx].formatters_, U)
                 = has_formatter(before[ctx].formatters_, U)
              /\ \A v \in {x \in ContextValues : x.ty = U} :
                    context_to_string(contexts[ctx].formatters_, v, build)
                    = context_to_string(before[ctx].formatters_, v, build)
    /\ op = "context_to_string" =>
          /\ ~Registered(ctx, arg.ty) => result = GlobalText(arg)
          /\ \A e \in contexts[ctx].formatters_ :
                (e[1] # arg.ty /\ <<arg.ty, e[2]>> \notin contexts[ctx].formatters_)
                => result # format(e[2], arg)
    /\ (op = "has_formatter" /\ type_arg \notin FormatterTypes) => ~found

\* a long is rendered by a context that holds a formatter for long long
C23_Witness ==
    /\ op = "context_to_string"
    /\ arg = Num(T_long, -3)
    /\ Registered(ctx, T_llong)
    /\ EntriesOf(ctx, T_llong) # {}
    /\ result = <<45, 51>>

----------------------------------------------------------------------------
(* The scan of quoted_str *)

\* the texts xs[1], ..., xs[n] one after the other
RECURSIVE Concat(_)
Concat(xs) == IF xs = <<>> THEN <<>> ELSE Head(xs) \o Concat(Tail(xs))

\* the iterations of the UTF-8 aware loop of the last call, cut off after
\* one more iteration than the text has bytes
C24_Steps ==
    utf8_steps(quote.s, bom_start_pos(quote.s), quote.start_delim,
               quote.end_delim, quote.escape, Len(quote.s) + 1)

\* C24: every call of quoted_str returns a text between the delimiters; in
\* the UTF-8 aware mode the scan index grows in every iteration, the loop
\* ends after at most as many iterations as the text has bytes, it reads
\* only indices below the length, a sequence cut off by the end of the text
\* is copied up to the last byte, and the result is what the iterations
\* append
C24_TotalAndInBounds ==
    op = "quoted_str" =>
        /\ Len(result) >= 2
        /\ result[1] = quote.start_delim
        /\ result[Len(result)] = quote.end_delim
        /\ (quote.is_utf8 /\ quote.escape # 0) =>
              LET st == C24_Steps
                  n == Len(quote.s)
              IN  /\ Len(st) <= n
                  /\ st = <<>> => bom_start_pos(quote.s) >= n
                  /\ st # <<>> => st[Len(st)].next >= n
                  /\ \A k \in 1..Len(st) :
                        /\ st[k].next > st[k].i
                        /\ \A r \in st[k].reads : r >= 0 /\ r < n
                        /\ k < Len(st) => st[k + 1].i = st[k].next
                        /\ (quote.s[st[k].i + 1] >= 128 /\ st[k].next > n) =>
                              st[k].out = SubSeq(quote.s, st[k].i + 1, n)
                  /\ Body(result) = Concat([k \in 1..Len(st) |-> st[k].out])

\* the text ends with the lead byte of a three-byte sequence and one more
\* byte, and the two bytes are copied
C24_Witness ==
    /\ op = "quoted_str"
    /\ quote.is_utf8
    /\ quote.escape # 0
    /\ quote.s = <<97, 226, 169>>
    /\ Body(result) = <<97, 226, 169>>
    /\ C24_Steps[Len(C24_Steps)].next = 4

----------------------------------------------------------------------------
(* Null C strings *)

\* the C string that holds the four characters null
NullText == Text(T_cstr, <<110, 117, 108, 108, 0>>)

\* the value with that C string in the place of every null const char*
RECURSIVE NullAsText(_)
NullAsText(v) ==
    IF v.ty = T_cstr /\ v.null THEN NullText
    ELSE [v EXCEPT !.mem = [i \in 1..Len(v.mem) |-> NullAsText(v.mem[i])],
                   !.el = [i \in 1..Len(v.el) |-> NullAsText(v.el[i])]]

\* a null const char* is an element of the value, at any depth
RECURSIVE HoldsNull(_)
HoldsNull(v) ==
    \/ \E i \in 1..Len(v.mem) :
          (v.mem[i].ty = T_cstr /\ v.mem[i].null) \/ HoldsNull(v.mem[i])
    \/ \E i \in 1..Len(v.el) :
          (v.el[i].ty = T_cstr /\ v.el[i].null) \/ HoldsNull(v.el[i])

\* C25: a null const char* element of a pair, tuple, array, container or
\* range is written as "null" between double quotes, the same bytes as for
\* the C string null; ustr::to_string of a null const char* and quoted_str
\* of a null pointer return null without quotes
C25_NestedNullQuoted ==
    /\ op = "to_string" =>
          /\ \A i \in 1..Len(C11_Nested(arg)) :
                LET x == C11_Nested(arg)[i] IN
                (x.ty = T_cstr /\ x.null) =>
                    /\ apply_quotation_if_needed(x, build)
                       = <<34, 110, 117, 108, 108, 34>>
                    /\ apply_quotation_if_needed(x, build)
                       = apply_quotation_if_needed(NullText, build)
          /\ HoldsNull(arg) => result = to_string(NullAsText(arg), build)
          /\ (arg.ty = T_cstr /\ arg.null) => result = <<110, 117, 108, 108>>
    /\ op = "to_string_range" =>
          result = to_string_range(range_type,
                                   [i \in 1..Len(range_items) |->
                                       NullAsText(range_items[i])], build)
    /\ op = "quoted_str_c_string" =>
          result = IF arg.null THEN <<110, 117, 108, 108>>
                   ELSE <<34>> \o BackslashEscaped(TextAt(arg.s)) \o <<34>>

\* ["null"] from a vector that holds one null const char*
C25_Witness ==
    /\ op = "to_string"
    /\ arg.ty = Vector(T_cstr)
    /\ Len(arg.el) = 1
    /\ arg.el[1].null
    /\ result = <<91, 34, 110, 117, 108, 108, 34, 93>>

----------------------------------------------------------------------------
(* The flag has_custom_specialization *)

\* the text of a value of a type that programs flag, told from the type and
\* from whether the program specializes to_string_impl for it
FlagFreeText(v) ==
    CASE v.ty = T_long -> DecimalText(v.n)
      [] v.ty = T_llong ->
            DecimalText(v.n) \o (IF Customized(T_llong) THEN TXT.LL ELSE <<>>)
      [] v.ty = C_both ->
            IF Customized(C_both) THEN TXT.custom \o DecimalText(v.n) ELSE v.ts

----------------------------------------------------------------------------
(* The byte-wise mode of quoted_str is injective *)

\* the text without its leading byte order mark
Stripped(s) == IF StartsWithBom(s) THEN AfterBom(s) ELSE s

\* the body b read back: each escaping byte is removed and the byte after it
\* is taken as it is
RECURSIVE Unescape(_, _)
Unescape(b, escape) ==
    IF b = <<>> THEN <<>>
    ELSE IF Head(b) = escape /\ Len(b) >= 2
         THEN <<b[2]>> \o Unescape(SubSeq(b, 3, Len(b)), escape)
         ELSE <<Head(b)>> \o Unescape(Tail(b), escape)

\* the texts one byte away from s: one byte replaced, removed or inserted
OneByteAway(s) ==
    {[s EXCEPT ![i] = c] : i \in 1..Len(s), c \in QuoteBytes}
    \cup {SubSeq(s, 1, i - 1) \o SubSeq(s, i + 1, Len(s)) : i \in 1..Len(s)}
    \cup {SubSeq(s, 1, i) \o <<c>> \o SubSeq(s, i + 1, Len(s)) :
             i \in 0..Len(s), c \in QuoteBytes}

\* the texts a quoted text is compared with: the texts one byte away from
\* it, each of them and the text itself after a byte order mark, and the
\* text without its byte order mark
Rivals(s) ==
    OneByteAway(s)
    \cup {BOM \o t : t \in OneByteAway(s) \cup {s}}
    \cup {Stripped(s)}

\* s and t are a text without byte order mark and the same text after one
BomApart(s, t) ==
    \/ ~StartsWithBom(t) /\ s = BOM \o t
    \/ ~StartsWithBom(s) /\ t = BOM \o s

\* C27: with an escape and UTF-8 mode off, the text after the leading byte
\* order mark is read back from the result by dropping the delimiters and
\* removing each escaping byte, and two different texts have the same result
\* only when one is the other, which starts with no byte order mark, after a
\* byte order mark
C27_Injective ==
    (op = "quoted_str" /\ quote.escape # 0 /\ ~quote.is_utf8) =>
        /\ Unescape(Body(result), quote.escape) = Stripped(quote.s)
        /\ \A t \in Rivals(quote.s) \cup OneByteAway(Stripped(quote.s)) :
              (t # quote.s
               /\ quoted_str(t, quote.start_delim, quote.end_delim,
                             quote.escape, FALSE) = result)
              => BomApart(quote.s, t)
        /\ \A t \in Rivals(quote.s) :
              (t # quote.s /\ BomApart(quote.s, t))
              => quoted_str(t, quote.start_delim, quote.end_delim,
                            quote.escape, FALSE) = result

\* the text a\" quoted byte-wise with the defaults: the body a\\\" is read
\* back as a\"
C27_Witness ==
    /\ op = "quoted_str"
    /\ quote.s = <<97, 92, 34>>
    /\ quote.start_delim = 34 /\ quote.end_delim = 34 /\ quote.escape = 92
    /\ ~quote.is_utf8
    /\ result = <<34, 97, 92, 92, 92, 34, 34>>
    /\ Unescape(Body(result), 92) = <<97, 92, 34>>

----------------------------------------------------------------------------
(* An empty formatter pointer *)

\* C28 as stated: no format_context holds an empty pointer as a formatter,
\* and when has_formatter<T>() is true, to_string on a value of type T
\* returns, with the text a registered formatter object gives for the value
C28_NoNullFormatter ==
    /\ \A c \in ContextIds : \A e \in contexts[c].formatters_ :
          e[2] # NullFormatter
    /\ (/\ op \in {"context_to_string", "terminated"}
        /\ has_formatter(contexts[ctx].formatters_, arg.ty))
       => /\ op = "context_to_string"
          /\ \E e \in EntriesOf(ctx, arg.ty) :
                /\ e[2] \in FormatterIds
                /\ result = format(e[2], arg)

\* has_formatter<long long>() is true for a context whose entry for long
\* long is an empty pointer
C28_NullEntryFound ==
    /\ op = "has_formatter"
    /\ type_arg = T_llong
    /\ found
    /\ <<T_llong, NullFormatter>> \in contexts[ctx].formatters_

\* to_string on a long long ends the program in a context whose entry for
\* long long is an empty pointer
C28_NullDereferenced ==
    /\ op = "terminated"
    /\ arg.ty = T_llong
    /\ <<T_llong, NullFormatter>> \in contexts[ctx].formatters_

----------------------------------------------------------------------------
(* The two pair tests *)

\* a class of the program with members named first and second
PairLikeClass(t) == t.k = "class" /\ has_first_second(t)

----------------------------------------------------------------------------
(* The two modes of quoted_str on well-formed UTF-8 *)

\* a continuation byte 10xxxxxx
Continuation(c) == c >= 128 /\ c <= 191

\* the number of continuation bytes after the lead byte c of a well-formed
\* sequence, -1 for a byte that starts none
Trailing(c) ==
    IF c < 128 THEN 0
    ELSE IF c >= 194 /\ c <= 223 THEN 1
    ELSE IF c >= 224 /\ c <= 239 THEN 2
    ELSE IF c >= 240 /\ c <= 244 THEN 3
    ELSE -1

\* the second byte c2 is in the range the lead byte c allows (no overlong
\* form, no surrogate, nothing above U+10FFFF)
SecondByte(c, c2) ==
    CASE c = 224 -> c2 >= 160 /\ c2 <= 191
      [] c = 237 -> c2 >= 128 /\ c2 <= 159
      [] c = 240 -> c2 >= 144 /\ c2 <= 191
      [] c = 244 -> c2 >= 128 /\ c2 <= 143
      [] OTHER -> Continuation(c2)

\* the text s is well-formed UTF-8 from the byte i on (1-based)
RECURSIVE WellFormedFrom(_, _)
WellFormedFrom(s, i) ==
    IF i > Len(s) THEN TRUE
    ELSE LET n == Trailing(s[i]) IN
         /\ n >= 0
         /\ i + n <= Len(s)
         /\ n >= 1 => SecondByte(s[i], s[i + 1])
         /\ \A j \in 2..n : Continuation(s[i + j])
         /\ WellFormedFrom(s, i + n + 1)

WellFormed(s) == WellFormedFrom(s, 1)

\* the result of the same call in the other mode
OtherMode ==
    quoted_str(quote.s, quote.start_delim, quote.end_delim, quote.escape,
               ~quote.is_utf8)

\* C30: with delimiters and escape below 0x80, a non-zero escape and a
\* well-formed UTF-8 text, quoted_str with is_utf8 = true and with
\* is_utf8 = false give the same bytes; the two results differ only with a
\* delimiter or escape >= 0x80 or a text that is not well-formed
C30_ModesAgree ==
    op = "quoted_str" =>
        /\ (/\ quote.start_delim < 128 /\ quote.end_delim < 128
            /\ quote.escape < 128 /\ quote.escape # 0
            /\ WellFormed(quote.s))
           => result = OtherMode
        /\ result # OtherMode =>
              \/ quote.start_delim >= 128 \/ quote.end_delim >= 128
              \/ quote.escape >= 128
              \/ ~WellFormed(quote.s)

\* a two-byte sequence, a backslash and a quote in UTF-8 mode with the
\* defaults: the sequence is copied, the other two bytes are escaped, as in
\* the byte-wise mode
C30_Witness ==
    /\ op = "quoted_str"
    /\ quote.is_utf8
    /\ quote.s = <<195, 169, 92>>
    /\ WellFormed(quote.s)
    /\ quote.start_delim = 34 /\ quote.end_delim = 34 /\ quote.escape = 92
    /\ result = <<34, 195, 169, 92, 92, 34>>
    /\ result = OtherMode

====
